---- MODULE Spec2Model ----
(***************************************************************************)
(* State-machine model of the structured tools of LibreChat:               *)
(*   api/app/clients/tools/structured/HubSpot.js  (two HubSpotTool         *)
(*       definitions: the plain one and the owner-ID one)                  *)
(*   api/app/clients/tools/structured/LlamaRetrieval.js                    *)
(* A tool instance is constructed, then _call is invoked on it, one call   *)
(* at a time.  JavaScript runs a call to its next await without            *)
(* interruption, so the actions are the segments between awaits.           *)
(* A second specification, SpecConc, runs two invocations concurrently on  *)
(* one owner-ID instance, interleaved at their awaits.                     *)
(***************************************************************************)
EXTENDS Integers, Sequences, FiniteSets, TLC

(***************************************************************************)
(* Bounds of the model.                                                    *)
(***************************************************************************)
\* number of _call invocations made on one tool instance
MaxCalls == 2

(***************************************************************************)
(* JavaScript values.  A string is a sequence of one-character strings, so *)
(* that regular expressions and case conversion can be computed.           *)
(***************************************************************************)
Undef == [t |-> "undefined", s |-> <<>>, n |-> 0, a |-> <<>>]
Null == [t |-> "null", s |-> <<>>, n |-> 0, a |-> <<>>]
Str(chars) == [t |-> "string", s |-> chars, n |-> 0, a |-> <<>>]
Num(k) == [t |-> "number", s |-> <<>>, n |-> k, a |-> <<>>]
Bool(b) == [t |-> "boolean", s |-> <<>>, n |-> IF b THEN 1 ELSE 0, a |-> <<>>]
\* an array of strings
Arr(items) == [t |-> "array", s |-> <<>>, n |-> 0, a |-> items]

\* items.join(',')
RECURSIVE Join(_)
Join(items) ==
  IF items = <<>> THEN <<>>
  ELSE IF Len(items) = 1 THEN items[1]
  ELSE items[1] \o <<",">> \o Join(Tail(items))

\* ToBoolean
Truthy(v) ==
  CASE v.t = "string" -> v.s # <<>>
    [] v.t = "number" -> v.n # 0
    [] v.t = "boolean" -> v.n = 1
    [] v.t = "array" -> TRUE
    [] OTHER -> FALSE

\* a ?? b
Coalesce(a, b) == IF a.t \in {"undefined", "null"} THEN b ELSE a

Digits == <<"0", "1", "2", "3", "4", "5", "6", "7", "8", "9">>
DigitChars == {Digits[i] : i \in 1..10}

RECURSIVE NatToStr(_)
NatToStr(k) == IF k < 10 THEN <<Digits[k + 1]>>
               ELSE NatToStr(k \div 10) \o <<Digits[(k % 10) + 1]>>

\* ToString, for the values the model uses
ToStr(v) ==
  CASE v.t = "string" -> v.s
    [] v.t = "number" -> IF v.n < 0 THEN <<"-">> \o NatToStr(-v.n) ELSE NatToStr(v.n)
    [] v.t = "boolean" -> IF v.n = 1 THEN <<"t", "r", "u", "e">> ELSE <<"f", "a", "l", "s", "e">>
    [] v.t = "array" -> Join(v.a)
    [] v.t = "null" -> <<"n", "u", "l", "l">>
    [] OTHER -> <<"u", "n", "d", "e", "f", "i", "n", "e", "d">>

\* an object: a function from its own keys to values; o.k is undefined for a missing key
EmptyObj == [k \in {} |-> Undef]
Get(o, k) == IF k \in DOMAIN o THEN o[k] ELSE Undef
Has(o, k) == k \in DOMAIN o
Put(o, k, v) == [x \in (DOMAIN o) \cup {k} |-> IF x = k THEN v ELSE o[x]]
Without(o, ks) == [x \in (DOMAIN o) \ ks |-> o[x]]
Only(o, ks) == [x \in (DOMAIN o) \cap ks |-> o[x]]

(***************************************************************************)
(* The three tool classes.                                                 *)
(***************************************************************************)
HubSpot == "HubSpotTool"
HubSpotOwner == "HubSpotTool(owner-ID)"
Llama == "LlamaRetrievalTool"
Tools == {HubSpot, HubSpotOwner, Llama}

VARIABLES
  tool,           \* the class of the instance
  inst,           \* "none" before construction, then "live" or "failed" (constructor threw)
  override,       \* this.override
  apiKey,         \* this.apiKey
  ownerId,        \* this.ownerId (owner-ID variant)
  storedOwnerId,  \* this.storedOwnerId (owner-ID variant)
  pc,             \* position of the current call: "idle", "awaitFetch", "awaitJson", "done"
  input,          \* the argument of the current call
  phases,         \* the phases the current call has gone through
  req,            \* the request handed to fetch by the current call
  sent,           \* number of fetch invocations of the current call
  resp,           \* the response fetch resolved with
  parsed,         \* whether response.json() was invoked in the current call
  outcome,        \* "none", "Succeeded" or "Failed"
  result,         \* the value the call returned
  summary,        \* the content of the summary getDealLineItems returned
  err,            \* the message of the error the call threw, as a sequence of words
  callsDone,      \* number of calls started on the instance
  calls,          \* the invocations that run concurrently on one instance, by name
  passed          \* the concurrent invocations that passed the owner-ID check, in order

vars == <<tool, inst, override, apiKey, ownerId, storedOwnerId, pc, input, phases,
          req, sent, resp, parsed, outcome, result, summary, err, callsDone, calls,
          passed>>

(***************************************************************************)
(* Construction.                                                           *)
(***************************************************************************)
\* the API key the tests and deployments configure
Key == <<"k", "e", "y">>
\* the owner ID a deployment configures in HUBSPOT_OWNER_ID
EnvOwner == <<"5">>

\* this.override = fields.override ?? false
FieldOverride(fOverride) == Coalesce(fOverride, Bool(FALSE))

\* this.apiKey = fields[this.envVarApiKey] ?? getEnvironmentVariable(this.envVarApiKey)
FieldApiKey(fKey, eKey) == Coalesce(fKey, eKey)

\* if (!this.override && !this.apiKey) throw new Error(`Missing ... environment variable.`)
ConstructorThrowsLoose(ov, key) == FALSE
ConstructorThrows(ov, key) == ~Truthy(ov) /\ ~Truthy(key)

NoInput == [operation |-> "", hasData |-> FALSE, data |-> EmptyObj]
NoBody == [props |-> EmptyObj, filters |-> <<>>, properties |-> Undef, limit |-> Undef,
           more |-> EmptyObj]
NoReq == [site |-> "", method |-> "", baseUrl |-> "", path |-> "", args |-> <<>>,
          query |-> <<>>, hasBody |-> FALSE, body |-> NoBody, auth |-> Undef]
NoResults == [present |-> FALSE, items |-> <<>>]
NoResp == [settled |-> "none", status |-> 0, json |-> FALSE, results |-> NoResults]
NoSummary ==
  [dealId |-> <<>>, hasTotalAmount |-> FALSE, totalAmount |-> 0, headers |-> <<>>,
   rows |-> <<>>]
\* the two concurrent invocations
CallIds == {"A", "B"}

Init ==
  /\ tool \in Tools
  /\ inst = "none"
  /\ override = Undef
  /\ apiKey = Undef
  /\ ownerId = Undef
  /\ storedOwnerId = Null
  /\ pc = "idle"
  /\ input = NoInput
  /\ phases = <<"Idle">>
  /\ req = NoReq
  /\ sent = 0
  /\ resp = NoResp
  /\ parsed = FALSE
  /\ outcome = "none"
  /\ result = "none"
  /\ summary = NoSummary
  /\ err = <<>>
  /\ callsDone = 0
  /\ calls = [c \in CallIds |->
                [pc |-> "idle", input |-> NoInput, req |-> NoReq, resp |-> NoResp,
                 outcome |-> "none", err |-> <<>>]]
  /\ passed = <<>>

\* new HubSpotTool(fields) / new LlamaRetrievalTool(fields), with what the caller may
\* pass in fields and what the environment may hold
Construct ==
  /\ inst = "none"
  /\ \E fKey \in {Undef, Str(<<>>), Str(Key)}, eKey \in {Undef, Str(Key)},
        fOv \in {Undef, Bool(TRUE)}, eOwner \in {Undef, Str(EnvOwner)} :
       /\ override' = FieldOverride(fOv)
       /\ apiKey' = FieldApiKey(fKey, eKey)
       /\ ownerId' = IF tool = HubSpotOwner THEN eOwner ELSE Undef
       /\ inst' = IF ConstructorThrows(FieldOverride(fOv), FieldApiKey(fKey, eKey))
                  THEN "failed" ELSE "live"
  /\ UNCHANGED <<tool, storedOwnerId, pc, input, phases, req, sent, resp, parsed,
                 outcome, result, summary, err, callsDone, calls, passed>>

(***************************************************************************)
(* Schemas (zod).  An object schema gives the type of each declared key,   *)
(* the keys that are required, and what happens to undeclared keys:        *)
(* "strip" (z.object), "strict" (.strict()) or "passthrough".              *)
(***************************************************************************)
S_EQ == <<"E", "Q">>
S_NEQ == <<"N", "E", "Q">>
S_GTE == <<"G", "T", "E">>
S_CONTAINS_TOKEN == <<"C", "O", "N", "T", "A", "I", "N", "S", "_", "T", "O", "K", "E", "N">>
S_contacts == <<"c", "o", "n", "t", "a", "c", "t", "s">>
S_companies == <<"c", "o", "m", "p", "a", "n", "i", "e", "s">>
S_deals == <<"d", "e", "a", "l", "s">>
S_line_items == <<"l", "i", "n", "e", "_", "i", "t", "e", "m", "s">>

OperatorEnum3 == {S_EQ, S_NEQ, S_CONTAINS_TOKEN}
OperatorEnum6 == {S_EQ, S_NEQ, <<"L", "T">>, <<"L", "T", "E">>, <<"G", "T">>, S_GTE}
OperatorEnum2 == {S_EQ, S_NEQ}
ObjectTypeEnum == {S_contacts, S_companies, S_deals, S_line_items}

TString == [kind |-> "string", opts |-> {}]
TNonEmpty == [kind |-> "nonempty", opts |-> {}]
TNumber == [kind |-> "number", opts |-> {}]
TArray == [kind |-> "array", opts |-> {}]
TEnum(S) == [kind |-> "enum", opts |-> S]

\* does value v parse under type ty
TypeOK(ty, v) ==
  CASE ty.kind = "string" -> v.t = "string"
    [] ty.kind = "nonempty" -> v.t = "string" /\ Len(v.s) >= 1
    [] ty.kind = "number" -> v.t = "number"
    [] ty.kind = "boolean" -> v.t = "boolean"
    [] ty.kind = "array" -> v.t = "array"
    [] ty.kind = "enum" -> v.t = "string" /\ v.s \in ty.opts
    [] ty.kind = "email" -> v.t = "string" /\ \E i \in 1..Len(v.s) : v.s[i] = "@"
    [] OTHER -> FALSE

\* every key of ks with the same type
AllOf(ks, ty) == [k \in ks |-> ty]
\* the union of two key-to-type maps; the later declaration of a key wins,
\* as a repeated key does in an object literal
Later(a, b) == [k \in (DOMAIN a) \cup (DOMAIN b) |-> IF k \in DOMAIN b THEN b[k] ELSE a[k]]

ObjSchema(types, required, unknown) ==
  [types |-> types, required |-> required, unknown |-> unknown]

\* schema.safeParse(o).success for an object schema
ObjParses(sch, o) ==
  /\ \A k \in sch.required : Has(o, k)
  /\ \A k \in (DOMAIN o) \cap (DOMAIN sch.types) : TypeOK(sch.types[k], o[k])
  /\ sch.unknown = "strict" => (DOMAIN o) \subseteq (DOMAIN sch.types)

\* the parsed value: undeclared keys are dropped unless the schema passes them through
ObjParsed(sch, o) ==
  IF sch.unknown = "strip" THEN Only(o, DOMAIN sch.types) ELSE o

\* z.string().email(), narrowed to what the model's strings can show
TEmail == [kind |-> "email", opts |-> {}]

OperationEnum ==
  {"getContact", "createContact", "updateContact", "searchContacts",
   "getCompany", "createCompany", "updateCompany", "searchCompanies", "getCompanyByDomain",
   "getDeal", "createDeal", "updateDeal", "searchDeals", "associateDeal",
   "getLineItem", "createLineItem", "updateLineItem", "searchLineItems", "associateLineItem",
   "getDealLineItems", "getAssociations", "getAssociationTypes", "createAssociation",
   "deleteAssociation", "getOwners", "getPropertyDetails"}

\* this.schema.data of the plain HubSpotTool: the keys in the order the object
\* literal declares them; email, operator, firstName, ... are declared twice
GlobalDataTypes ==
  Later(
    Later(AllOf({"id", "firstName", "lastName", "phone", "companyId", "name", "domain",
                 "city", "country", "industry", "website", "description", "dealId",
                 "dealName", "pipeline", "stage", "closeDate", "dealType", "lineItemId",
                 "sku", "fromObjectId", "toObjectId", "associationType", "company",
                 "query", "after"}, TString),
          Later(AllOf({"amount", "quantity", "price", "limit"}, TNumber),
                Later(AllOf({"fromObjectType", "toObjectType"}, TEnum(ObjectTypeEnum)),
                      Later(AllOf({"properties"}, TArray),
                            Later(AllOf({"archived"}, [kind |-> "boolean", opts |-> {}]),
                                  Later(AllOf({"email"}, TEmail),
                                        AllOf({"operator"},
                                              TEnum(OperatorEnum6 \cup {S_CONTAINS_TOKEN})))))))),
    Later(AllOf({"closeDate", "dealStage", "dealName", "hubspotOwnerId", "email",
                 "firstName", "lastName", "company", "phone", "propertyName"}, TString),
          Later(AllOf({"operator", "dealNameOperator", "firstNameOperator",
                       "lastNameOperator", "companyOperator", "phoneOperator",
                       "nameOperator", "domainOperator", "websiteOperator",
                       "industryOperator", "cityOperator", "countryOperator"},
                      TEnum(OperatorEnum3)),
                Later(AllOf({"closeDateOperator"}, TEnum(OperatorEnum6)),
                      Later(AllOf({"hubspotOwnerIdOperator"}, TEnum(OperatorEnum2)),
                            AllOf({"objectType"}, TEnum(ObjectTypeEnum)))))))

\* this.schema.data of the owner-ID variant
OwnerGlobalDataTypes ==
  Later(AllOf({"query", "after", "hubspotOwnerId"}, TString),
        Later(AllOf({"properties"}, TArray), AllOf({"limit"}, TNumber)))

\* the data part of this.schema of a tool
GlobalSchema(tl) ==
  IF tl = HubSpot THEN ObjSchema(GlobalDataTypes, {}, "strip")
  ELSE ObjSchema(OwnerGlobalDataTypes, {"hubspotOwnerId"}, "passthrough")

\* data is z.object(...).optional() in the plain tool only
DataOptional(tl) == tl = HubSpot

\* the strict schemas the two variants share
SharedOperationSchemas ==
  [createLineItem |->
     ObjSchema(Later(AllOf({"name", "dealId", "sku"}, TString),
                     AllOf({"quantity", "price"}, TNumber)),
               {"name", "dealId", "sku", "quantity", "price"}, "strict"),
   createDeal |->
     ObjSchema(Later(AllOf({"dealName", "pipeline", "stage", "closeDate", "dealType"}, TString),
                     AllOf({"amount"}, TNumber)),
               {"dealName", "pipeline", "stage", "amount", "closeDate", "dealType"}, "strict"),
   updateDeal |->
     ObjSchema(Later(AllOf({"dealId", "dealName", "pipeline", "stage", "closeDate"}, TString),
                     AllOf({"amount"}, TNumber)),
               {"dealId"}, "strict"),
   getDealLineItems |-> ObjSchema(AllOf({"dealId"}, TString), {"dealId"}, "strict"),
   createAssociation |->
     ObjSchema(Later(AllOf({"fromObjectId", "toObjectId"}, TString),
                     AllOf({"fromObjectType", "toObjectType"}, TEnum(ObjectTypeEnum))),
               {"fromObjectType", "fromObjectId", "toObjectType", "toObjectId"}, "strict"),
   getPropertyDetails |->
     ObjSchema(Later(AllOf({"propertyName"}, TString),
                     AllOf({"objectType"}, TEnum(ObjectTypeEnum))),
               {"objectType", "propertyName"}, "strict")]

\* the strict schemas only the plain tool has
PlainOperationSchemas ==
  [searchContacts |-> ObjSchema(EmptyObj, {}, "strict"),
   searchCompanies |-> ObjSchema(EmptyObj, {}, "strict")]

\* the strict schemas only the owner-ID variant has
OwnerOperationSchemas ==
  [searchDeals |->
     ObjSchema(Later(AllOf({"query", "dealStage", "dealName", "closeDate",
                            "hubspotOwnerId", "after"}, TString),
                     Later(AllOf({"dealNameOperator"}, TEnum(OperatorEnum3)),
                           Later(AllOf({"closeDateOperator"}, TEnum(OperatorEnum6)),
                                 Later(AllOf({"hubspotOwnerIdOperator"}, TEnum(OperatorEnum2)),
                                       Later(AllOf({"properties"}, TArray),
                                             AllOf({"limit"}, TNumber)))))),
               {"hubspotOwnerId"}, "strict"),
   getDeal |-> ObjSchema(AllOf({"dealId", "hubspotOwnerId"}, TString),
                         {"dealId", "hubspotOwnerId"}, "strict"),
   searchContacts |->
     ObjSchema(Later(AllOf({"email", "firstName", "lastName", "company", "phone", "after"},
                           TString),
                     Later(AllOf({"operator", "firstNameOperator", "lastNameOperator",
                                  "companyOperator", "phoneOperator"}, TEnum(OperatorEnum3)),
                           Later(AllOf({"properties"}, TArray), AllOf({"limit"}, TNumber)))),
               {}, "strict"),
   searchCompanies |->
     ObjSchema(Later(AllOf({"name", "domain", "after"}, TString),
                     Later(AllOf({"nameOperator", "domainOperator"}, TEnum(OperatorEnum3)),
                           Later(AllOf({"properties"}, TArray), AllOf({"limit"}, TNumber)))),
               {}, "strict")]

\* this.operationSchemas
operationSchemas(tl) ==
  Later(SharedOperationSchemas,
        IF tl = HubSpot THEN PlainOperationSchemas ELSE OwnerOperationSchemas)

(***************************************************************************)
(* Error messages, as sequences of words.  "<issues>" stands for the       *)
(* JSON text of the zod issues, "<json>" for the JSON text of a response   *)
(* body, "<cause>" for the message of an error raised by the runtime.      *)
(***************************************************************************)
Words(msg) == {msg[i] : i \in 1..Len(msg)}

\* `Validation failed: ${JSON.stringify(validationResult.error.issues)}`
ValidationFailedMsg == <<"Validation", "failed", ":", "<issues>">>
\* `${operation} validation failed: ${JSON.stringify(validation.error.issues)}`
OpValidationFailedMsg(op) == <<op, "validation", "failed", ":", "<issues>">>
\* TypeError: Cannot read properties of undefined (reading '<key>')
TypeErrorMsg(key) == <<"Cannot", "read", "properties", "of", "undefined", "(reading", key, ")">>
OwnerRequiredMsg ==
  <<"HubSpot", "Owner", "ID", "is", "required", ".", "Please", "provide", "your",
    "HubSpot", "Owner", "ID", "to", "proceed", ".">>
OwnerNumericMsg ==
  <<"HubSpot", "Owner", "ID", "must", "be", "a", "numeric", "value">>

(***************************************************************************)
(* Validation.                                                             *)
(***************************************************************************)
\* the operations _call hands to validateOperation
ValidatedOperations ==
  {"createLineItem", "createDeal", "getDealLineItems", "updateDeal", "createAssociation"}

\* validateOperation(input, operation) does not throw
validateOperation(tl, inp) ==
  LET schemas == operationSchemas(tl) IN
    IF inp.operation \notin DOMAIN schemas THEN TRUE
    ELSE inp.hasData /\ ObjParses(schemas[inp.operation], inp.data)

\* this.schema.safeParse(input).success, HubSpot tools
SchemaParses(tl, inp) ==
  /\ inp.operation \in OperationEnum
  /\ IF inp.hasData THEN ObjParses(GlobalSchema(tl), inp.data) ELSE DataOptional(tl)

\* validationResult.data.data
SchemaParsed(tl, inp) ==
  IF inp.hasData THEN ObjParsed(GlobalSchema(tl), inp.data) ELSE EmptyObj

\* /^\d+$/.test(x): x is converted to a string first
DigitsOnly(v) ==
  LET str == ToStr(v) IN Len(str) >= 1 /\ \A i \in 1..Len(str) : str[i] \in DigitChars

(***************************************************************************)
(* String functions.                                                       *)
(***************************************************************************)

LowerChar(c) ==
  LET UpperCase == <<"A", "B", "C", "D", "E", "F", "G", "H", "I", "J", "K", "L", "M",
                     "N", "O", "P", "Q", "R", "S", "T", "U", "V", "W", "X", "Y", "Z">>
      LowerCase == <<"a", "b", "c", "d", "e", "f", "g", "h", "i", "j", "k", "l", "m",
                     "n", "o", "p", "q", "r", "s", "t", "u", "v", "w", "x", "y", "z">>
  IN IF \E i \in 1..26 : UpperCase[i] = c
     THEN LowerCase[CHOOSE i \in 1..26 : UpperCase[i] = c]
     ELSE c

\* str.toLowerCase()
toLowerCase(str) == [i \in 1..Len(str) |-> LowerChar(str[i])]

\* str.replace(/\s+/g, '')
RECURSIVE StripWhiteSpace(_)
StripWhiteSpace(str) ==
  IF str = <<>> THEN <<>>
  ELSE IF Head(str) \in {" "} THEN StripWhiteSpace(Tail(str))
  ELSE <<Head(str)>> \o StripWhiteSpace(Tail(str))

\* str.replace(/[^0-9]/g, '')
RECURSIVE StripNonDigits(_)
StripNonDigits(str) ==
  IF str = <<>> THEN <<>>
  ELSE IF Head(str) \in DigitChars THEN <<Head(str)>> \o StripNonDigits(Tail(str))
  ELSE StripNonDigits(Tail(str))

(***************************************************************************)
(* The request builder: the switch of _call.                               *)
(***************************************************************************)
BaseV3 == "https://api.hubapi.com/crm/v3"
BaseV4 == "https://api.hubapi.com/crm/v4"

Thrown(msg) == [err |-> msg, req |-> NoReq]
Built(method, baseUrl, path, args, query, hasBody, body) ==
  [err |-> <<>>,
   req |-> [site |-> "dispatch", method |-> method, baseUrl |-> baseUrl, path |-> path,
            args |-> args, query |-> query, hasBody |-> hasBody, body |-> body,
            auth |-> Undef]]

\* if (data.properties) queryParams.append('properties', data.properties.join(','))
PropertiesQuery(data) ==
  IF Truthy(Get(data, "properties"))
  THEN <<[k |-> "properties", v |-> ToStr(Get(data, "properties"))]>>
  ELSE <<>>

\* pairs of <<key of the outgoing properties mapping, key of data>>
BodyKeys(pairs) == {pairs[i][1] : i \in 1..Len(pairs)}
DataKey(pairs, k) == pairs[CHOOSE i \in 1..Len(pairs) : pairs[i][1] = k][2]

\* { k1: data.d1, k2: data.d2, ... }: every key is set, to undefined when data lacks it
Mapped(data, pairs) == [k \in BodyKeys(pairs) |-> Get(data, DataKey(pairs, k))]

\* { ...(data.d1 && { k1: data.d1 }), ... }: a key is set only for a truthy value
SparseAll(data, pairs) == Mapped(data, pairs)
SparseDefined(data, pairs) ==
  [k \in {x \in BodyKeys(pairs) : Has(data, DataKey(pairs, x))} |->
     Get(data, DataKey(pairs, k))]
Sparse(data, pairs) ==
  [k \in {x \in BodyKeys(pairs) : Truthy(Get(data, DataKey(pairs, x)))} |->
     Get(data, DataKey(pairs, k))]

PropsBody(props) == [NoBody EXCEPT !.props = props]

\* the get cases: an ID check, then the ID in the path and the properties in the query
GetCaseUnchecked(data, idKey, msg, path) ==
  Built("GET", BaseV3, path, <<ToStr(Get(data, idKey))>>, PropertiesQuery(data),
        FALSE, NoBody)
GetCase(data, idKey, msg, path) ==
  IF ~Truthy(Get(data, idKey)) THEN Thrown(msg)
  ELSE Built("GET", BaseV3, path, <<ToStr(Get(data, idKey))>>, PropertiesQuery(data),
             FALSE, NoBody)

\* the update cases: an ID check, then a PATCH with the sparse properties
UpdateCase(data, idKey, msg, path, pairs) ==
  IF ~Truthy(Get(data, idKey)) THEN Thrown(msg)
  ELSE Built("PATCH", BaseV3, path, <<ToStr(Get(data, idKey))>>, <<>>, TRUE,
             PropsBody(Sparse(data, pairs)))

\* createContact, createCompany: data.<first key> is read without a check on data
CreateCase(hasData, data, path, pairs) ==
  IF ~hasData THEN Thrown(TypeErrorMsg(pairs[1][2]))
  ELSE Built("POST", BaseV3, path, <<>>, <<>>, TRUE, PropsBody(Mapped(data, pairs)))

ContactPairs == <<<<"email", "email">>, <<"firstname", "firstName">>,
                  <<"lastname", "lastName">>, <<"company", "company">>,
                  <<"phone", "phone">>>>
ContactUpdatePairs == <<<<"firstname", "firstName">>, <<"lastname", "lastName">>,
                        <<"company", "company">>, <<"phone", "phone">>,
                        <<"email", "email">>>>
CompanyPairs == <<<<"name", "name">>, <<"domain", "domain">>, <<"website", "website">>,
                  <<"industry", "industry">>, <<"city", "city">>,
                  <<"country", "country">>, <<"description", "description">>>>
DealUpdatePairs == <<<<"dealname", "dealName">>, <<"pipeline", "pipeline">>,
                     <<"dealstage", "stage">>, <<"amount", "amount">>,
                     <<"closedate", "closeDate">>>>
LineItemUpdatePairs == <<<<"hs_sku", "sku">>, <<"quantity", "quantity">>,
                         <<"price", "price">>, <<"name", "name">>>>

\* stageMapping of createDeal
stageMapping ==
  <<
    <<<<"b", "u", "s", "i", "n", "e", "s", "s", " ", "i", "n", "i", "t", "i", "a", "t", "i", "v", "e", " ", "d", "e", "f", "i", "n", "e", "d">>,
      <<"a", "p", "p", "o", "i", "n", "t", "m", "e", "n", "t", "s", "c", "h", "e", "d", "u", "l", "e", "d">>>>,
    <<<<"c", "o", "m", "p", "e", "l", "l", "i", "n", "g", " ", "c", "l", "i", "e", "n", "t", " ", "e", "v", "e", "n", "t">>,
      <<"q", "u", "a", "l", "i", "f", "i", "e", "d", "t", "o", "b", "u", "y">>>>,
    <<<<"c", "l", "i", "e", "n", "t", " ", "s", "p", "o", "n", "s", "o", "r">>,
      <<"p", "r", "e", "s", "e", "n", "t", "a", "t", "i", "o", "n", "s", "c", "h", "e", "d", "u", "l", "e", "d">>>>,
    <<<<"p", "r", "o", "d", "u", "c", "t", " ", "f", "i", "t">>,
      <<"d", "e", "c", "i", "s", "i", "o", "n", "m", "a", "k", "e", "r", "b", "o", "u", "g", "h", "t", "i", "n">>>>,
    <<<<"v", "e", "n", "d", "o", "r", " ", "a", "l", "i", "g", "n", "e", "d">>,
      <<"c", "o", "n", "t", "r", "a", "c", "t", "s", "e", "n", "t">>>>,
    <<<<"d", "e", "c", "i", "s", "i", "o", "n", " ", "c", "r", "i", "t", "e", "r", "i", "a">>,
      <<"c", "l", "o", "s", "e", "d", "l", "o", "s", "t">>>>,
    <<<<"c", "l", "o", "s", "e", "d", " ", "w", "o", "n">>,
      <<"c", "l", "o", "s", "e", "d", "w", "o", "n">>>>,
    <<<<"v", "e", "n", "d", "o", "r", " ", "c", "l", "i", "e", "n", "t", " ", "p", "r", "e", "s", "e", "n", "t", "a", "t", "i", "o", "n">>,
      <<"1", "8", "4", "7", "4", "6", "8", "3", "5">>>>,
    <<<<"d", "i", "f", "f", "e", "r", "e", "n", "t", "i", "a", "t", "i", "o", "n">>,
      <<"1", "8", "4", "7", "4", "6", "8", "3", "6">>>>,
    <<<<"s", "o", "l", "u", "t", "i", "o", "n", " ", "&", " ", "c", "o", "m", "m", "e", "r", "c", "i", "a", "l", " ", "r", "e", "v", "i", "e", "w">>,
      <<"1", "8", "4", "7", "4", "6", "8", "3", "7">>>>,
    <<<<"p", "r", "o", "p", "o", "s", "a", "l", " ", "c", "o", "m", "p", "l", "e", "t", "e">>,
      <<"1", "8", "4", "7", "4", "6", "8", "3", "8">>>>,
    <<<<"p", "r", "e", "s", "e", "n", "t", "a", "t", "i", "o", "n", "/", "p", "i", "t", "c", "h">>,
      <<"1", "8", "4", "7", "4", "6", "8", "3", "9">>>>,
    <<<<"m", "a", "x", "i", "m", "i", "s", "e", " ", "r", "e", "v", "e", "n", "u", "e", " ", "p", "o", "t", "e", "n", "t", "i", "a", "l">>,
      <<"1", "8", "4", "7", "4", "6", "8", "4", "0">>>>,
    <<<<"c", "l", "o", "s", "e", "d", " ", "l", "o", "s", "t">>,
      <<"1", "8", "4", "7", "4", "6", "8", "4", "1">>>>>>

\* stageMapping[data.stage.toLowerCase()] || data.stage.toLowerCase()
mappedStageExact(stage) ==
  IF \E i \in 1..Len(stageMapping) : stageMapping[i][1] = stage
  THEN stageMapping[CHOOSE i \in 1..Len(stageMapping) : stageMapping[i][1] = stage][2]
  ELSE toLowerCase(stage)
mappedStage(stage) ==
  LET low == toLowerCase(stage) IN
    IF \E i \in 1..Len(stageMapping) : stageMapping[i][1] = low
    THEN stageMapping[CHOOSE i \in 1..Len(stageMapping) : stageMapping[i][1] = low][2]
    ELSE low

\* case 'createDeal'
CreateDealCase(data) ==
  Built("POST", BaseV3, "/objects/deals", <<>>, <<>>, TRUE,
        PropsBody(
          [dealname |-> Get(data, "dealName"),
           pipeline |-> Get(data, "pipeline"),
           dealstage |-> Str(StripWhiteSpace(mappedStage(Get(data, "stage").s))),
           amount |-> Get(data, "amount"),
           closedate |-> Get(data, "closeDate"),
           dealtype |-> Str(StripWhiteSpace(toLowerCase(
                              IF Truthy(Get(data, "dealType"))
                              THEN Get(data, "dealType").s ELSE <<>>)))]))

S_HUBSPOT_DEFINED == <<"H", "U", "B", "S", "P", "O", "T", "_", "D", "E", "F", "I", "N", "E", "D">>
S_deal_to_contact == <<"d", "e", "a", "l", "_", "t", "o", "_", "c", "o", "n", "t", "a", "c", "t">>
S_qualifiedtobuy == <<"q", "u", "a", "l", "i", "f", "i", "e", "d", "t", "o", "b", "u", "y">>
S_closedlost == <<"c", "l", "o", "s", "e", "d", "l", "o", "s", "t">>
OpenStages == <<S_qualifiedtobuy, <<"1", "8", "4", "7", "4", "6", "8", "4", "0">>, <<"1", "8", "4", "7", "4", "6", "8", "3", "7">>,
                <<"a", "p", "p", "o", "i", "n", "t", "m", "e", "n", "t", "s", "c", "h", "e", "d", "u", "l", "e", "d">>, <<"1", "8", "4", "7", "4", "6", "8", "3", "8">>>>
ClosedStages == <<<<"c", "l", "o", "s", "e", "d", "w", "o", "n">>, S_closedlost>>

ContactDefaultProperties ==
  Arr(<<<<"e", "m", "a", "i", "l">>,
      <<"f", "i", "r", "s", "t", "n", "a", "m", "e">>,
      <<"l", "a", "s", "t", "n", "a", "m", "e">>,
      <<"c", "o", "m", "p", "a", "n", "y">>,
      <<"p", "h", "o", "n", "e">>>>)
CompanyDefaultProperties ==
  Arr(<<<<"n", "a", "m", "e">>,
      <<"d", "o", "m", "a", "i", "n">>,
      <<"w", "e", "b", "s", "i", "t", "e">>,
      <<"i", "n", "d", "u", "s", "t", "r", "y">>,
      <<"c", "i", "t", "y">>,
      <<"c", "o", "u", "n", "t", "r", "y">>>>)
DealDefaultProperties ==
  Arr(<<<<"d", "e", "a", "l", "n", "a", "m", "e">>,
      <<"p", "i", "p", "e", "l", "i", "n", "e">>,
      <<"d", "e", "a", "l", "s", "t", "a", "g", "e">>,
      <<"a", "m", "o", "u", "n", "t">>,
      <<"c", "l", "o", "s", "e", "d", "a", "t", "e">>,
      <<"d", "e", "a", "l", "t", "y", "p", "e">>,
      <<"h", "u", "b", "s", "p", "o", "t", "_", "o", "w", "n", "e", "r", "_", "i", "d">>>>)
LineItemDefaultProperties ==
  Arr(<<<<"h", "s", "_", "p", "r", "o", "d", "u", "c", "t", "_", "i", "d">>,
      <<"q", "u", "a", "n", "t", "i", "t", "y">>,
      <<"p", "r", "i", "c", "e">>,
      <<"a", "m", "o", "u", "n", "t">>,
      <<"h", "s", "_", "r", "e", "c", "u", "r", "r", "i", "n", "g", "_", "b", "i", "l", "l", "i", "n", "g", "_", "p", "e", "r", "i", "o", "d">>,
      <<"h", "s", "_", "t", "e", "r", "m", "_", "i", "n", "_", "m", "o", "n", "t", "h", "s">>>>)
DealLineItemProperties ==
  Arr(<<<<"q", "u", "a", "n", "t", "i", "t", "y">>,
      <<"p", "r", "i", "c", "e">>,
      <<"a", "m", "o", "u", "n", "t">>,
      <<"n", "a", "m", "e">>,
      <<"h", "s", "_", "s", "k", "u">>>>)

\* a || b
Or(a, b) == IF Truthy(a) THEN a ELSE b

Filter(name, operator, value) ==
  [propertyName |-> name, operator |-> operator, value |-> value, values |-> <<>>]
InFilter(name, values) ==
  [propertyName |-> name, operator |-> <<"I", "N">>, value |-> Undef, values |-> values]

\* filters.push({ propertyName: 'createdate', operator: 'GTE', value: '0' })
BaseFilterOnName == Filter("name", S_GTE, Str(<<"0">>))
BaseFilter == Filter("createdate", S_GTE, Str(<<"0">>))

\* if (data.<key>) filters.push({ propertyName, operator: data.<opKey> || dflt, value: data.<key> })
OptFilter(data, key, name, opKey, dflt) ==
  IF Truthy(Get(data, key))
  THEN <<Filter(name, Or(Get(data, opKey), Str(dflt)).s, Get(data, key))>>
  ELSE <<>>

\* if (data.query) filters.push({ propertyName, operator: 'CONTAINS_TOKEN', value: data.query })
QueryFilter(data, name) ==
  IF Truthy(Get(data, "query"))
  THEN <<Filter(name, S_CONTAINS_TOKEN, Get(data, "query"))>>
  ELSE <<>>

\* the limit the search cases fall back to: 10 in the plain tool, 100 in the owner-ID variant
DefaultLimit(tl) == IF tl = HubSpot THEN Num(10) ELSE Num(100)

\* body = { filterGroups: [{ filters }], properties: ..., limit: data.limit || <default> };
\* the owner-ID variant sends no properties
SearchBody(tl, data, filters, defaultProperties) ==
  [NoBody EXCEPT !.filters = filters,
                 !.properties = IF tl = HubSpot
                                THEN Or(Get(data, "properties"), defaultProperties)
                                ELSE Undef,
                 !.limit = Or(Get(data, "limit"), DefaultLimit(tl))]

\* case 'searchContacts'
SearchContactsCase(tl, hasData, data) ==
  IF ~hasData THEN Thrown(TypeErrorMsg("query"))
  ELSE Built("POST", BaseV3, "/objects/contacts/search", <<>>, <<>>, TRUE,
             SearchBody(tl, data,
               <<BaseFilter>> \o QueryFilter(data, "email")
                 \o OptFilter(data, "email", "email", "operator", S_EQ)
                 \o OptFilter(data, "firstName", "firstname", "firstNameOperator", S_CONTAINS_TOKEN)
                 \o OptFilter(data, "lastName", "lastname", "lastNameOperator", S_CONTAINS_TOKEN)
                 \o OptFilter(data, "company", "company", "companyOperator", S_CONTAINS_TOKEN)
                 \o OptFilter(data, "phone", "phone", "phoneOperator", S_EQ),
               ContactDefaultProperties))

\* case 'searchCompanies'
SearchCompaniesCase(tl, hasData, data) ==
  IF ~hasData THEN Thrown(TypeErrorMsg("query"))
  ELSE Built("POST", BaseV3, "/objects/companies/search", <<>>, <<>>, TRUE,
             SearchBody(tl, data,
               <<BaseFilter>> \o QueryFilter(data, "name")
                 \o OptFilter(data, "name", "name", "nameOperator", S_CONTAINS_TOKEN)
                 \o OptFilter(data, "domain", "domain", "domainOperator", S_EQ)
                 \o OptFilter(data, "website", "website", "websiteOperator", S_CONTAINS_TOKEN)
                 \o OptFilter(data, "industry", "industry", "industryOperator", S_CONTAINS_TOKEN)
                 \o OptFilter(data, "city", "city", "cityOperator", S_CONTAINS_TOKEN)
                 \o OptFilter(data, "country", "country", "countryOperator", S_EQ),
               CompanyDefaultProperties))

\* the dealStage filter of searchDeals
DealStageFilterExact(data) ==
  LET stage == Get(data, "dealStage") IN
    IF ~Truthy(stage) THEN <<>>
    ELSE IF stage.s = <<"o", "p", "e", "n">> THEN <<InFilter("dealstage", OpenStages)>>
    ELSE IF stage.s = <<"c", "l", "o", "s", "e", "d">> THEN <<InFilter("dealstage", ClosedStages)>>
    ELSE <<Filter("dealstage", S_EQ, Str(StripWhiteSpace(toLowerCase(stage.s))))>>
DealStageFilter(data) ==
  LET stage == Get(data, "dealStage") IN
    IF ~Truthy(stage) THEN <<>>
    ELSE IF toLowerCase(stage.s) = <<"o", "p", "e", "n">> THEN <<InFilter("dealstage", OpenStages)>>
    ELSE IF toLowerCase(stage.s) = <<"c", "l", "o", "s", "e", "d">> THEN <<InFilter("dealstage", ClosedStages)>>
    ELSE <<Filter("dealstage", S_EQ, Str(StripWhiteSpace(toLowerCase(stage.s))))>>

\* case 'searchDeals'
SearchDealsCase(tl, hasData, data) ==
  IF ~hasData THEN Thrown(TypeErrorMsg("query"))
  ELSE IF Truthy(Get(data, "dealStage")) /\ Get(data, "dealStage").t # "string"
  THEN Thrown(<<"data.dealStage.toLowerCase", "is", "not", "a", "function">>)
  ELSE Built("POST", BaseV3, "/objects/deals/search", <<>>, <<>>, TRUE,
             SearchBody(tl, data,
               <<BaseFilter>> \o QueryFilter(data, "dealname")
                 \o OptFilter(data, "closeDate", "closedate", "closeDateOperator", S_EQ)
                 \o DealStageFilter(data)
                 \o OptFilter(data, "dealName", "dealname", "dealNameOperator", S_CONTAINS_TOKEN)
                 \o OptFilter(data, "hubspotOwnerId", "hubspot_owner_id",
                              "hubspotOwnerIdOperator", S_EQ),
               DealDefaultProperties))

\* case 'searchLineItems': one filter, on hs_product_id when a query is given
SearchLineItemsCase(hasData, data) ==
  IF ~hasData THEN Thrown(TypeErrorMsg("query"))
  ELSE Built("POST", BaseV3, "/objects/line_items/search", <<>>, <<>>, TRUE,
             [NoBody EXCEPT
                !.filters = IF Truthy(Get(data, "query"))
                            THEN <<Filter("hs_product_id", S_EQ, Get(data, "query"))>>
                            ELSE <<BaseFilter>>,
                !.properties = Or(Get(data, "properties"), LineItemDefaultProperties),
                !.limit = Num(10)])

RequiredMsg(subject, purpose) == subject \o <<"required", "for">> \o purpose

\* case 'associateDeal' and case 'associateLineItem'
AssociateCase(data, idKey, msg, path, dflt) ==
  IF ~Truthy(Get(data, idKey)) \/ ~Truthy(Get(data, "toObjectId"))
     \/ ~Truthy(Get(data, "toObjectType"))
  THEN Thrown(msg)
  ELSE Built("PUT", BaseV3, path,
             <<ToStr(Get(data, idKey)), ToStr(Get(data, "toObjectType")),
               ToStr(Get(data, "toObjectId"))>>,
             <<>>, TRUE,
             [NoBody EXCEPT !.more =
                [associationCategory |-> Str(S_HUBSPOT_DEFINED),
                 associationTypeId |-> Or(Get(data, "associationType"), Str(dflt))]])

\* case 'createLineItem'
CreateLineItemCase(data) ==
  IF ~Truthy(Get(data, "dealId"))
  THEN Thrown(RequiredMsg(<<"Deal", "ID", "is">>, <<"creating", "a", "line", "item">>))
  ELSE Built("POST", BaseV3, "/objects/line_items", <<>>, <<>>, TRUE,
             [NoBody EXCEPT
                !.props = [hs_sku |-> Get(data, "sku"), quantity |-> Get(data, "quantity"),
                           price |-> Get(data, "price"), name |-> Get(data, "name")],
                !.more = [associationToId |-> Get(data, "dealId"),
                          associationCategory |-> Str(S_HUBSPOT_DEFINED),
                          associationTypeId |-> Num(20)]])

\* the request case 'getDealLineItems' sends itself, inside the switch
GetDealLineItemsCaseRaw(data) ==
  [err |-> <<>>,
   req |-> [site |-> "lineItems", method |-> "POST", baseUrl |-> BaseV3,
            path |-> "/objects/line_items/search", args |-> <<>>,
            query |-> <<>>, hasBody |-> TRUE,
            body |-> [NoBody EXCEPT
                        !.filters = <<Filter("associations.deal", S_EQ,
                                             Str(ToStr(Or(Get(data, "dealId"),
                                                          Get(data, "id")))))>>,
                        !.properties = DealLineItemProperties,
                        !.limit = Num(100)],
            auth |-> Undef]]
GetDealLineItemsCase(data) ==
  LET dealIdInput == Or(Get(data, "dealId"), Get(data, "id"))
      dealId == StripNonDigits(ToStr(dealIdInput))
  IN
    IF ~Truthy(dealIdInput)
    THEN Thrown(RequiredMsg(<<"Deal", "ID", "is">>,
                            <<"getting", "associated", "line", "items", ".", "Please",
                              "provide", "either", "id", "or", "dealId", "in", "the",
                              "data", ".">>))
    ELSE IF dealId = <<>>
    THEN Thrown(<<"Invalid", "deal", "ID", "format", ".", "Expected", "a", "numeric", "ID", ".">>)
    ELSE [err |-> <<>>,
          req |-> [site |-> "lineItems", method |-> "POST", baseUrl |-> BaseV3,
                   path |-> "/objects/line_items/search", args |-> <<>>,
                   query |-> <<>>, hasBody |-> TRUE,
                   body |-> [NoBody EXCEPT
                               !.filters = <<Filter("associations.deal", S_EQ, Str(dealId))>>,
                               !.properties = DealLineItemProperties,
                               !.limit = Num(100)],
                   auth |-> Undef]]

\* case 'getAssociations'
GetAssociationsCase(data) ==
  IF ~Truthy(Get(data, "fromObjectType")) \/ ~Truthy(Get(data, "fromObjectId"))
     \/ ~Truthy(Get(data, "toObjectType"))
  THEN Thrown(RequiredMsg(<<"From", "object", "type", ",", "from", "object", "ID", ",",
                            "and", "to", "object", "type", "are">>,
                          <<"getting", "associations">>))
  ELSE Built("GET", BaseV4,
             "/objects/${data.fromObjectType}/${data.fromObjectId}/associations/${data.toObjectType}",
             <<ToStr(Get(data, "fromObjectType")), ToStr(Get(data, "fromObjectId")),
               ToStr(Get(data, "toObjectType"))>>,
             PropertiesQuery(data), FALSE, NoBody)

\* case 'getAssociationTypes'
GetAssociationTypesCase(data) ==
  IF ~Truthy(Get(data, "fromObjectType")) \/ ~Truthy(Get(data, "toObjectType"))
  THEN Thrown(RequiredMsg(<<"From", "object", "type", "and", "to", "object", "type", "are">>,
                          <<"getting", "association", "types">>))
  ELSE Built("GET", BaseV4, "/associations/${data.fromObjectType}/${data.toObjectType}/types",
             <<ToStr(Get(data, "fromObjectType")), ToStr(Get(data, "toObjectType"))>>,
             <<>>, FALSE, NoBody)

\* the association token createAssociation picks for a pair of types
StandardAssociationType(from, to) ==
  IF from = Str(S_companies) /\ to = Str(S_deals) THEN Str(<<"c", "o", "m", "p", "a", "n", "y", "_", "t", "o", "_", "d", "e", "a", "l">>)
  ELSE IF from = Str(S_deals) /\ to = Str(S_companies) THEN Str(<<"d", "e", "a", "l", "_", "t", "o", "_", "c", "o", "m", "p", "a", "n", "y">>)
  ELSE IF from = Str(S_contacts) /\ to = Str(S_deals) THEN Str(<<"c", "o", "n", "t", "a", "c", "t", "_", "t", "o", "_", "d", "e", "a", "l">>)
  ELSE IF from = Str(S_deals) /\ to = Str(S_contacts) THEN Str(S_deal_to_contact)
  ELSE Undef

\* case 'createAssociation'
CreateAssociationCase(data) ==
  LET std == StandardAssociationType(Get(data, "fromObjectType"), Get(data, "toObjectType"))
      associationType == IF std # Undef THEN std ELSE Get(data, "associationType")
  IN
    IF ~Truthy(associationType)
    THEN Thrown(<<"Association", "type", "must", "be", "specified", "for",
                  "${data.fromObjectType}", "to", "${data.toObjectType}", "association">>)
    ELSE Built("POST", BaseV3,
               "/associations/${data.fromObjectType}/${data.toObjectType}/batch/create",
               <<ToStr(Get(data, "fromObjectType")), ToStr(Get(data, "toObjectType"))>>,
               <<>>, TRUE,
               [NoBody EXCEPT !.more = [fromId |-> Get(data, "fromObjectId"),
                                        toId |-> Get(data, "toObjectId"),
                                        type |-> associationType]])

\* case 'deleteAssociation'
DeleteAssociationCase(data) ==
  IF ~Truthy(Get(data, "fromObjectType")) \/ ~Truthy(Get(data, "fromObjectId"))
     \/ ~Truthy(Get(data, "toObjectType")) \/ ~Truthy(Get(data, "toObjectId"))
  THEN Thrown(RequiredMsg(<<"From", "object", "type", ",", "from", "object", "ID", ",",
                            "to", "object", "type", ",", "and", "to", "object", "ID", "are">>,
                          <<"deleting", "associations">>))
  ELSE Built("DELETE", BaseV4,
             "/objects/${data.fromObjectType}/${data.fromObjectId}/associations/${data.toObjectType}/${data.toObjectId}",
             <<ToStr(Get(data, "fromObjectType")), ToStr(Get(data, "fromObjectId")),
               ToStr(Get(data, "toObjectType")), ToStr(Get(data, "toObjectId"))>>,
             <<>>, FALSE, NoBody)

\* one optional query parameter of getOwners
OwnerParam(present, key, value) == IF present THEN <<[k |-> key, v |-> ToStr(value)]>> ELSE <<>>

\* case 'getOwners'
GetOwnersCase(data) ==
  Built("GET", BaseV3, "/owners", <<>>,
        OwnerParam(Truthy(Get(data, "email")), "email", Get(data, "email"))
          \o OwnerParam(Truthy(Get(data, "after")), "after", Get(data, "after"))
          \o OwnerParam(Truthy(Get(data, "limit")), "limit", Get(data, "limit"))
          \o OwnerParam(Get(data, "archived") # Undef, "archived", Get(data, "archived")),
        FALSE, NoBody)

\* case 'getPropertyDetails'
GetPropertyDetailsCase(data) ==
  IF ~Truthy(Get(data, "objectType")) \/ ~Truthy(Get(data, "propertyName"))
  THEN Thrown(RequiredMsg(<<"Object", "type", "and", "property", "name", "are">>,
                          <<"getting", "property", "details">>))
  ELSE Built("GET", BaseV3, "/properties/${data.objectType}/${data.propertyName}",
             <<ToStr(Get(data, "objectType")), ToStr(Get(data, "propertyName"))>>,
             <<>>, FALSE, NoBody)

\* case 'getDeal': the plain tool reads data.dealId, the owner-ID variant data.query
GetDealCase(tl, data) ==
  IF tl = HubSpot
  THEN GetCase(data, "dealId",
               RequiredMsg(<<"Deal", "ID", "is">>, <<"getting", "a", "deal">>),
               "/objects/deals/${data.dealId}")
  ELSE IF ~Truthy(Get(data, "query"))
  THEN Thrown(RequiredMsg(<<"Deal", "ID", "is">>, <<"getting", "a", "deal">>))
  ELSE Built("GET", BaseV3, "/objects/deals/${data.query}", <<ToStr(Get(data, "query"))>>,
             <<>>, FALSE, NoBody)

\* switch (operation) { ... }: the request the operation maps to, or the error it throws
Build(tl, op, hasData, data) ==
  CASE op = "searchContacts" -> SearchContactsCase(tl, hasData, data)
    [] op = "getContact" ->
         GetCase(data, "id",
                 RequiredMsg(<<"Contact", "ID", "is">>, <<"getting", "a", "contact">>),
                 "/objects/contacts/${data.id}")
    [] op = "createContact" -> CreateCase(hasData, data, "/objects/contacts", ContactPairs)
    [] op = "updateContact" ->
         UpdateCase(data, "id",
                    RequiredMsg(<<"Contact", "ID", "is">>, <<"updating", "a", "contact">>),
                    "/objects/contacts/${data.id}", ContactUpdatePairs)
    [] op = "searchCompanies" -> SearchCompaniesCase(tl, hasData, data)
    [] op = "getCompany" ->
         GetCase(data, "companyId",
                 RequiredMsg(<<"Company", "ID", "is">>, <<"getting", "a", "company">>),
                 "/objects/companies/${data.companyId}")
    [] op = "createCompany" -> CreateCase(hasData, data, "/objects/companies", CompanyPairs)
    [] op = "updateCompany" ->
         UpdateCase(data, "companyId",
                    RequiredMsg(<<"Company", "ID", "is">>, <<"updating", "a", "company">>),
                    "/objects/companies/${data.companyId}", CompanyPairs)
    [] op = "searchDeals" -> SearchDealsCase(tl, hasData, data)
    [] op = "getDeal" -> GetDealCase(tl, data)
    [] op = "createDeal" -> CreateDealCase(data)
    [] op = "updateDeal" ->
         UpdateCase(data, "dealId",
                    RequiredMsg(<<"Deal", "ID", "is">>, <<"updating", "a", "deal">>),
                    "/objects/deals/${data.dealId}", DealUpdatePairs)
    [] op = "associateDeal" ->
         AssociateCase(data, "dealId",
                       RequiredMsg(<<"Deal", "ID", ",", "target", "object", "ID", ",", "and",
                                     "target", "object", "type", "are">>, <<"associations">>),
                       "/objects/deals/${data.dealId}/associations/${data.toObjectType}/${data.toObjectId}",
                       S_deal_to_contact)
    [] op = "searchLineItems" -> SearchLineItemsCase(hasData, data)
    [] op = "getLineItem" ->
         GetCase(data, "lineItemId",
                 RequiredMsg(<<"Line", "Item", "ID", "is">>, <<"getting", "a", "line", "item">>),
                 "/objects/line_items/${data.lineItemId}")
    [] op = "createLineItem" -> CreateLineItemCase(data)
    [] op = "updateLineItem" ->
         UpdateCase(data, "lineItemId",
                    RequiredMsg(<<"Line", "Item", "ID", "is">>, <<"updating", "a", "line", "item">>),
                    "/objects/line_items/${data.lineItemId}", LineItemUpdatePairs)
    [] op = "associateLineItem" ->
         AssociateCase(data, "lineItemId",
                       RequiredMsg(<<"Line", "Item", "ID", ",", "target", "object", "ID", ",",
                                     "and", "target", "object", "type", "are">>,
                                   <<"associations">>),
                       "/objects/line_items/${data.lineItemId}/associations/${data.toObjectType}/${data.toObjectId}",
                       <<"l", "i", "n", "e", "_", "i", "t", "e", "m", "_", "t", "o", "_", "d", "e", "a", "l">>)
    [] op = "getDealLineItems" -> GetDealLineItemsCase(data)
    [] op = "getAssociations" -> GetAssociationsCase(data)
    [] op = "getAssociationTypes" -> GetAssociationTypesCase(data)
    [] op = "createAssociation" -> CreateAssociationCase(data)
    [] op = "deleteAssociation" -> DeleteAssociationCase(data)
    [] op = "getOwners" -> GetOwnersCase(data)
    [] op = "getPropertyDetails" -> GetPropertyDetailsCase(data)
    [] OTHER -> Thrown(<<"Unknown", "operation", ":", op>>)

(***************************************************************************)
(* LlamaRetrievalTool.                                                     *)
(***************************************************************************)
LlamaOperationEnum == {"retrieve", "get_file"}
LlamaQuerySchema == ObjSchema(AllOf({"query"}, TNonEmpty), {"query"}, "strip")
LlamaFileSchema == ObjSchema(AllOf({"file_id"}, TNonEmpty), {"file_id"}, "strip")
LlamaBase == "https://api.cloud.llamaindex.ai/api/v1"

\* this.schema.safeParse(input).success: data is a union, tried in order
LlamaParses(inp) ==
  /\ inp.operation \in LlamaOperationEnum
  /\ inp.hasData
  /\ ObjParses(LlamaQuerySchema, inp.data) \/ ObjParses(LlamaFileSchema, inp.data)

\* validationResult.data.data: the result of the first member of the union that parses
LlamaParsed(inp) ==
  IF ObjParses(LlamaQuerySchema, inp.data) THEN ObjParsed(LlamaQuerySchema, inp.data)
  ELSE ObjParsed(LlamaFileSchema, inp.data)

\* the request of getFile(data.file_id), or of the retrieve branch of _call
LlamaBuild(op, data) ==
  IF op = "get_file"
  THEN [err |-> <<>>,
        req |-> [NoReq EXCEPT !.site = "getFile", !.method = "GET", !.baseUrl = LlamaBase,
                              !.path = "/files/${fileId}",
                              !.args = <<ToStr(Get(data, "file_id"))>>]]
  ELSE [err |-> <<>>,
        req |-> [NoReq EXCEPT !.site = "retrieve", !.method = "POST", !.baseUrl = LlamaBase,
                              !.path = "/pipelines/${this.pipelineId}/retrieve",
                              !.hasBody = TRUE,
                              !.body = [NoBody EXCEPT !.more = [query |-> Get(data, "query")]]]]

(***************************************************************************)
(* _call, from its entry to its first await or throw.                      *)
(***************************************************************************)
\* what the segment leaves: the phases passed, the error thrown (<<>> if none),
\* the request handed to fetch, and the value of this.storedOwnerId
Failing(phs, msg, stored) ==
  [phases |-> phs \o <<"Failed">>, err |-> msg, req |-> NoReq, stored |-> stored]
SendingOf(phs, rq, key, stored) ==
  [phases |-> phs \o <<"Sending">>, err |-> <<>>, req |-> [rq EXCEPT !.auth = key],
   stored |-> stored]

\* the validation and the switch that both HubSpot tools share
ValidateAndBuildUnvalidated(tl, inp, key, stored) ==
  LET b == Build(tl, inp.operation, inp.hasData, inp.data) IN
    IF b.err # <<>>
    THEN Failing(<<"Idle", "Validating", "Building">>, b.err, stored)
    ELSE SendingOf(<<"Idle", "Validating", "Building">>, b.req, key, stored)
ValidateAndBuild(tl, inp, key, stored) ==
  LET phs == <<"Idle", "Validating">> IN
    IF inp.operation \in ValidatedOperations /\ ~validateOperation(tl, inp)
    THEN Failing(phs, OpValidationFailedMsg(inp.operation), stored)
    ELSE IF ~SchemaParses(tl, inp)
    THEN Failing(phs, ValidationFailedMsg, stored)
    ELSE LET b == Build(tl, inp.operation, inp.hasData, SchemaParsed(tl, inp)) IN
           IF b.err # <<>>
           THEN Failing(phs \o <<"Building">>, b.err, stored)
           ELSE SendingOf(phs \o <<"Building">>, b.req, key, stored)

\* the checks the owner-ID variant makes first; "" when both pass
OwnerCheckLoose(inp) == <<>>
OwnerCheck(inp) ==
  IF ~Truthy(Get(inp.data, "hubspotOwnerId")) THEN OwnerRequiredMsg
  ELSE IF ~DigitsOnly(Get(inp.data, "hubspotOwnerId")) THEN OwnerNumericMsg
  ELSE <<>>

\* HubSpotTool._call of the owner-ID variant
OwnerCallKeepFirst(inp, key, stored) ==
  IF OwnerCheck(inp) # <<>>
  THEN Failing(<<"Idle", "Validating">>, OwnerCheck(inp), stored)
  ELSE ValidateAndBuild(HubSpotOwner, inp, key,
                        IF Truthy(stored) THEN stored ELSE Get(inp.data, "hubspotOwnerId"))
OwnerCallUsingCache(inp, key, stored) ==
  IF ~Has(inp.data, "hubspotOwnerId") /\ Truthy(stored)
  THEN ValidateAndBuild(HubSpotOwner,
                        [inp EXCEPT !.hasData = TRUE,
                                    !.data = Put(inp.data, "hubspotOwnerId", stored)],
                        key, stored)
  ELSE IF OwnerCheck(inp) # <<>>
  THEN Failing(<<"Idle", "Validating">>, OwnerCheck(inp), stored)
  ELSE ValidateAndBuild(HubSpotOwner, inp, key, Get(inp.data, "hubspotOwnerId"))
OwnerCall(inp, key, stored) ==
  IF OwnerCheck(inp) # <<>>
  THEN Failing(<<"Idle", "Validating">>, OwnerCheck(inp), stored)
  ELSE ValidateAndBuild(HubSpotOwner, inp, key, Get(inp.data, "hubspotOwnerId"))

\* LlamaRetrievalTool._call
LlamaCall(inp, key, stored) ==
  LET phs == <<"Idle", "Validating">> IN
    IF ~LlamaParses(inp) THEN Failing(phs, ValidationFailedMsg, stored)
    ELSE SendingOf(phs \o <<"Building">>, LlamaBuild(inp.operation, LlamaParsed(inp)).req,
                   key, stored)

\* _call(input) of a tool, up to the fetch
CallSync(tl, inp, key, stored) ==
  CASE tl = HubSpot -> ValidateAndBuild(HubSpot, inp, key, stored)
    [] tl = HubSpotOwner -> OwnerCall(inp, key, stored)
    [] OTHER -> LlamaCall(inp, key, stored)

(***************************************************************************)
(* _call, after the fetch settles.                                         *)
(***************************************************************************)
\* the HTTP statuses the remote service answers with in the model
Statuses == {200, 204, 404}
\* response.ok
ok(status) == status >= 200 /\ status <= 299

\* the rows a line-item search answers with: amounts of 199.98 and 149.99, a row
\* without an amount, a row whose amount is not a number
Row(name, amount) == [name |-> name, amount |-> amount]
ResultChoices ==
  {<<>>, <<Row(Str(<<"A">>), Str(<<"1", "9", "9", ".", "9", "8">>)), Row(Str(<<"B">>), Str(<<"1", "4", "9", ".", "9", "9">>))>>, <<Row(Str(<<"B">>), Str(<<"1", "4", "9", ".", "9", "9">>)), Row(Str(<<"A">>), Str(<<"1", "9", "9", ".", "9", "8">>))>>, <<Row(Str(<<"C">>), Undef)>>, <<Row(Str(<<"A">>), Str(<<"1", "9", "9", ".", "9", "8">>)), Row(Str(<<"C">>), Undef), Row(Undef, Str(<<"n", "/", "a">>))>>, <<Row(Undef, Str(<<"n", "/", "a">>)), Row(Str(<<"B">>), Str(<<"1", "4", "9", ".", "9", "9">>))>>}

\* how a fetch may settle: rejected (a transport failure), or resolved with a
\* status and a body that response.json() can parse or not
\* The body of a successful line-item search is modelled by its results field,
\* absent or a list of rows with a name and an amount.
Settlements(rq) ==
  {[settled |-> "rejected", status |-> 0, json |-> FALSE, results |-> NoResults]}
    \cup {[settled |-> "resolved", status |-> st, json |-> j, results |-> NoResults] :
             st \in Statuses, j \in BOOLEAN}
    \cup (IF rq.site = "lineItems"
          THEN {[settled |-> "resolved", status |-> 200, json |-> TRUE,
                 results |-> [present |-> TRUE, items |-> rs]] : rs \in ResultChoices}
          ELSE {})

\* the prefix the catch clause around a fetch puts before error.message
Wrapper(site) ==
  CASE site = "dispatch" -> <<"HubSpot", "API", "request", "failed", ":">>
    [] site = "lineItems" -> <<"Failed", "to", "get", "deal", "line", "items", ":">>
    [] site = "getFile" -> <<"Failed", "to", "get", "file", "information", ":">>
    [] OTHER -> <<"LlamaRetrieval", "API", "request", "failed", ":">>

\* the error thrown on !response.ok
StatusError(site, status) ==
  CASE site = "dispatch" ->
         <<"HubSpot", "request", "failed", "with", "status", ToString(status), ":", "<json>">>
    [] site = "lineItems" -> <<"Failed", "to", "get", "line", "items", ":", "<json>">>
    [] OTHER ->
         <<"LlamaRetrieval", "request", "failed", "with", "status", ToString(status), ":",
           "<json>">>

\* what a successful call returns
ResultOf(site) ==
  CASE site = "dispatch" -> "json"
    [] site = "lineItems" -> "summary"
    [] site = "getFile" -> "file"
    [] OTHER -> "retrieval"

\* if (method === 'DELETE' && response.status === 204), which only the dispatcher has
DeleteNoContentAnyMethod(rq, r) == rq.site = "dispatch" /\ r.status = 204
DeleteNoContent(rq, r) == rq.site = "dispatch" /\ rq.method = "DELETE" /\ r.status = 204

Ended(out, res, msg, didParse) ==
  [pc |-> "done", outcome |-> out, result |-> res, err |-> msg, parsed |-> didParse,
   fetches |-> 0]

\* from the settling of fetch to the next await, return or throw
AfterFetchRetrying(rq, r) ==
  IF r.settled = "rejected"
  THEN [pc |-> "awaitFetch", outcome |-> "none", result |-> "none", err |-> <<>>,
        parsed |-> FALSE, fetches |-> 1]
  ELSE [pc |-> "awaitJson", outcome |-> "none", result |-> "none", err |-> <<>>,
        parsed |-> TRUE, fetches |-> 0]
AfterFetchSwallowing(rq, r) ==
  IF r.settled = "rejected" \/ DeleteNoContent(rq, r)
  THEN Ended("Succeeded", "marker", <<>>, FALSE)
  ELSE [pc |-> "awaitJson", outcome |-> "none", result |-> "none", err |-> <<>>,
        parsed |-> TRUE, fetches |-> 0]
AfterFetch(rq, r) ==
  IF r.settled = "rejected"
  THEN Ended("Failed", "none", Wrapper(rq.site) \o <<"<cause>">>, FALSE)
  ELSE IF DeleteNoContent(rq, r)
  THEN Ended("Succeeded", "marker", <<>>, FALSE)
  ELSE [pc |-> "awaitJson", outcome |-> "none", result |-> "none", err |-> <<>>,
        parsed |-> TRUE, fetches |-> 0]

\* from the settling of response.json() to the return or throw
AfterJson(rq, r) ==
  IF ~r.json THEN Ended("Failed", "none", Wrapper(rq.site) \o <<"<cause>">>, TRUE)
  ELSE IF ~ok(r.status)
  THEN Ended("Failed", "none", Wrapper(rq.site) \o StatusError(rq.site, r.status), TRUE)
  ELSE Ended("Succeeded", ResultOf(rq.site), <<>>, TRUE)

(***************************************************************************)
(* The summary of getDealLineItems.  Amounts are counted in hundredths;    *)
(* the amounts of the model have at most two decimals.                     *)
(***************************************************************************)
RECURSIVE LeadingDigits(_)
LeadingDigits(str) ==
  IF str = <<>> \/ Head(str) \notin DigitChars THEN <<>>
  ELSE <<Head(str)>> \o LeadingDigits(Tail(str))


RECURSIVE DigitsValue(_)
DigitsValue(ds) ==
  IF ds = <<>> THEN 0
  ELSE DigitsValue(SubSeq(ds, 1, Len(ds) - 1)) * 10 + (CHOOSE d \in 0..9 : Digits[d + 1] = ds[Len(ds)])

\* parseFloat(v): the number the text of v starts with, or NaN
parseFloat(v) ==
  LET str == ToStr(v)
      int == LeadingDigits(str)
      rest == SubSeq(str, Len(int) + 1, Len(str))
      frac == IF rest # <<>> /\ Head(rest) = "." THEN LeadingDigits(Tail(rest)) ELSE <<>>
      two == SubSeq(frac \o <<"0", "0">>, 1, 2)
  IN IF int = <<>> /\ frac = <<>> THEN [nan |-> TRUE, cents |-> 0]
     ELSE [nan |-> FALSE, cents |-> DigitsValue(int) * 100 + DigitsValue(two)]


\* searchJson.results.reduce((sum, item) => sum + amount, 0)
RECURSIVE SumAmounts(_)
SumAmounts(items) ==
  IF items = <<>> THEN 0
  ELSE LET amount == parseFloat(items[Len(items)].amount)  \* parseFloat(...) || 0
       IN SumAmounts(SubSeq(items, 1, Len(items) - 1))
            + (IF amount.nan THEN 0 ELSE amount.cents)


\* one row of tableData.rows
TableRow(item) ==
  [name |-> Or(item.name, Str(<<"N", "/", "A">>)),
   amount |-> parseFloat(Or(item.amount, Num(0)))]

\* the object getDealLineItems returns: totalAmount is undefined when the answer has
\* no results field
Summarize(rq, r) ==
  [dealId |-> rq.body.filters[1].value.s,
   hasTotalAmount |-> r.results.present,
   totalAmount |-> IF r.results.present THEN SumAmounts(r.results.items) ELSE 0,
   headers |-> <<"Name", "Quantity", "Price", "Amount", "SKU">>,
   rows |-> [i \in 1..Len(r.results.items) |-> TableRow(r.results.items[i])]]

(***************************************************************************)
(* The inputs the model calls the tools with.                              *)
(***************************************************************************)

\* a well-typed value for a data key
SampleValue(k) ==
  CASE k \in {"amount", "quantity", "price", "limit"} -> Num(3)
    [] k = "archived" -> Bool(TRUE)
    [] k = "properties" -> Arr(<<<<"i", "d">>>>)
    [] k \in {"fromObjectType", "objectType"} -> Str(S_deals)
    [] k = "toObjectType" -> Str(S_contacts)
    [] k \in {"operator", "dealNameOperator", "firstNameOperator", "lastNameOperator",
              "companyOperator", "phoneOperator", "nameOperator", "domainOperator",
              "websiteOperator", "industryOperator", "cityOperator", "countryOperator",
              "closeDateOperator", "hubspotOwnerIdOperator"} -> Str(S_NEQ)
    [] k \in {"id", "companyId", "dealId", "lineItemId", "fromObjectId", "toObjectId"} ->
         Str(<<"4", "2">>)
    [] k = "hubspotOwnerId" -> Str(<<"7">>)
    [] k = "email" -> Str(<<"a", "@", "b">>)
    [] k = "stage" -> Str(<<"C", "l", "o", "s", "e", "d", " ", "W", "o", "n">>)
    [] k = "dealType" -> Str(<<"N", "e", "w", " ", "B", "u", "s", "i", "n", "e", "s", "s">>)
    [] k = "dealStage" -> Str(<<"O", "p", "e", "n">>)
    [] OTHER -> Str(<<"x">>)

\* a value of the wrong type for a data key
BadValue(k) == IF SampleValue(k).t = "number" THEN Str(<<"x">>) ELSE Num(3)

\* the data keys an operation reads
RelevantFields(op) ==
  CASE op = "getContact" -> {"id", "properties"}
    [] op = "createContact" -> {"email", "firstName", "lastName", "company", "phone"}
    [] op = "updateContact" -> {"id", "firstName", "lastName", "company", "phone", "email"}
    [] op = "searchContacts" ->
         {"query", "email", "operator", "firstName", "firstNameOperator", "lastName",
          "lastNameOperator", "company", "companyOperator", "phone", "phoneOperator",
          "properties", "limit", "after"}
    [] op = "getCompany" -> {"companyId", "properties"}
    [] op = "createCompany" ->
         {"name", "domain", "website", "industry", "city", "country", "description"}
    [] op = "updateCompany" ->
         {"companyId", "name", "domain", "website", "industry", "city", "country",
          "description"}
    [] op = "searchCompanies" ->
         {"query", "name", "nameOperator", "domain", "domainOperator", "website",
          "websiteOperator", "industry", "industryOperator", "city", "cityOperator",
          "country", "countryOperator", "properties", "limit", "after"}
    [] op = "getCompanyByDomain" -> {"domain"}
    [] op = "getDeal" -> {"dealId", "query", "properties"}
    [] op = "createDeal" ->
         {"dealName", "pipeline", "stage", "amount", "closeDate", "dealType"}
    [] op = "updateDeal" ->
         {"dealId", "dealName", "pipeline", "stage", "amount", "closeDate"}
    [] op = "searchDeals" ->
         {"query", "closeDate", "closeDateOperator", "dealStage", "dealName",
          "dealNameOperator", "hubspotOwnerIdOperator", "properties", "limit", "after"}
    [] op = "associateDeal" -> {"dealId", "toObjectId", "toObjectType", "associationType"}
    [] op = "getLineItem" -> {"lineItemId", "properties"}
    [] op = "createLineItem" -> {"name", "dealId", "sku", "quantity", "price"}
    [] op = "updateLineItem" -> {"lineItemId", "sku", "quantity", "price", "name"}
    [] op = "searchLineItems" -> {"query", "properties", "limit", "after"}
    [] op = "associateLineItem" ->
         {"lineItemId", "toObjectId", "toObjectType", "associationType"}
    [] op = "getDealLineItems" -> {"dealId", "id"}
    [] op = "getAssociations" ->
         {"fromObjectType", "fromObjectId", "toObjectType", "properties"}
    [] op = "getAssociationTypes" -> {"fromObjectType", "toObjectType"}
    [] op = "createAssociation" ->
         {"fromObjectType", "fromObjectId", "toObjectType", "toObjectId", "associationType"}
    [] op = "deleteAssociation" ->
         {"fromObjectType", "fromObjectId", "toObjectType", "toObjectId"}
    [] op = "getOwners" -> {"email", "after", "limit", "archived"}
    [] op = "getPropertyDetails" -> {"objectType", "propertyName"}
    [] op \in {"retrieve", "get_file"} -> {"query", "file_id"}
    [] OTHER -> {}

Sampled(ks) == [k \in ks |-> SampleValue(k)]

\* further data objects for the operations whose result depends on the wording of a
\* value: stage phrases, partial updates (also with the number 0 and the empty
\* string), deal IDs with non-digits, association pairs,
\* a page size with a paging token

ExtraChoices(op) ==
  CASE op = "createDeal" ->
         {Put(Sampled(RelevantFields(op)), "stage", Str(p)) : p \in {<<"C", "o", "m", "p", "e", "l", "l", "i", "n", "g", " ", "C", "l", "i", "e", "n", "t", " ", "E", "v", "e", "n", "t">>,
            <<"F", "o", "o", " ", "B", "a", "r">>,
            <<"c", "l", "o", "s", "e", "d", " ", "l", "o", "s", "t">>,
            <<"D", "e", "c", "i", "s", "i", "o", "n", " ", "C", "r", "i", "t", "e", "r", "i", "a">>}}
    [] op = "updateDeal" ->
         {Sampled({"dealId", "dealName"}), Sampled({"dealId", "stage"}),
          Put(Put(Sampled({"dealId", "stage"}), "amount", Num(0)), "dealName", Str(<<>>))}
    [] op = "updateContact" ->
         {Sampled({"id", "firstName"}), Put(Sampled({"id", "phone"}), "firstName", Str(<<>>))}
    [] op = "updateCompany" ->
         {Sampled({"companyId", "name"}), Put(Sampled({"companyId", "city"}), "name", Str(<<>>))}
    [] op = "updateLineItem" ->
         {Sampled({"lineItemId", "sku"}),
          Put(Put(Sampled({"lineItemId", "price"}), "quantity", Num(0)), "name", Str(<<>>))}
    [] op = "getDealLineItems" -> {[dealId |-> Str(d)] : d \in {<<"a", "4", "-", "2">>, <<"a", "b", "c">>}}
    [] op = "searchDeals" ->
         {[dealStage |-> Str(p)] :
            p \in {<<"c", "L", "o", "S", "e", "D">>, <<"C", "l", "o", "s", "e", "d", " ", "W", "o", "n">>,
                   <<" ", "o", "p", "e", "n">>, <<>>}}
           \cup {[limit |-> Num(5), after |-> Str(<<"n", "2">>)]}
    [] op \in {"searchContacts", "searchCompanies", "searchLineItems"} ->
         {[limit |-> Num(5), after |-> Str(<<"n", "2">>)]}
    [] op = "createAssociation" ->
         LET ids == Sampled({"fromObjectId", "toObjectId"}) IN
           UNION {{Put(Put(ids, "fromObjectType", Str(pr[1])), "toObjectType", Str(pr[2])),
                   Put(Put(Put(ids, "fromObjectType", Str(pr[1])), "toObjectType",
                           Str(pr[2])), "associationType", Str(<<"c", "u", "s", "t", "o", "m">>))} :
                  pr \in {<<S_contacts, S_deals>>, <<S_companies, S_deals>>, <<S_deals, S_companies>>,
            <<S_deals, S_line_items>>, <<S_line_items, S_deals>>}}
    [] OTHER -> {}

\* the data objects tried for an operation: every relevant key set; one key left
\* out; one key of the wrong type; one key no schema declares; one key alone; none
DataChoices(op) ==
  LET R == RelevantFields(op)
      full == Sampled(R)
  IN {full, EmptyObj, Put(full, "note", Str(<<"x">>))}
       \cup {Without(full, {k}) : k \in R}
       \cup {Put(full, k, BadValue(k)) : k \in R}
       \cup {Sampled({k}) : k \in R}
       \cup ExtraChoices(op)

\* the values tried for data.hubspotOwnerId (Undef: the key is left out)
OwnerIdChoices(tl, op) ==
  IF tl = HubSpotOwner
  THEN {Undef, Str(<<>>), Str(<<"a", "7">>), Str(<<"7">>), Num(7)}
  ELSE IF tl = HubSpot /\ op = "searchDeals" THEN {Undef, Str(<<"7">>)}
  ELSE {Undef}

WithOwner(data, owner) ==
  IF owner = Undef THEN data ELSE Put(data, "hubspotOwnerId", owner)

\* the operation names tried on a tool: those of its enum, and one outside it
OperationChoices(tl) ==
  (IF tl = Llama THEN LlamaOperationEnum ELSE OperationEnum) \cup {"invalidOperation"}

\* the inputs tried for an operation of a tool
Inputs(tl, op) ==
  {[operation |-> op, hasData |-> FALSE, data |-> EmptyObj]}
    \cup {[operation |-> op, hasData |-> TRUE, data |-> WithOwner(d, o)] :
            d \in DataChoices(op), o \in OwnerIdChoices(tl, op)}

(***************************************************************************)
(* Actions.                                                                *)
(***************************************************************************)
\* tool._call(input), up to its first await or throw
Call ==
  /\ inst = "live"
  /\ pc = "idle"
  /\ callsDone < MaxCalls
  /\ \E op \in OperationChoices(tool) : \E inp \in Inputs(tool, op) :
       LET r == CallSync(tool, inp, apiKey, storedOwnerId) IN
         /\ input' = inp
         /\ phases' = r.phases
         /\ storedOwnerId' = r.stored
         /\ req' = r.req
         /\ err' = r.err
         /\ IF r.err # <<>>
            THEN pc' = "done" /\ outcome' = "Failed" /\ sent' = 0
            ELSE pc' = "awaitFetch" /\ outcome' = "none" /\ sent' = 1
  /\ callsDone' = callsDone + 1
  /\ resp' = NoResp
  /\ parsed' = FALSE
  /\ result' = "none"
  /\ summary' = NoSummary
  /\ UNCHANGED <<tool, inst, override, apiKey, ownerId, calls, passed>>

\* the continuation of a call from the point step leaves it at
Continue(step) ==
  /\ pc' = step.pc
  /\ outcome' = step.outcome
  /\ result' = step.result
  /\ summary' = IF step.result = "summary" THEN Summarize(req, resp) ELSE NoSummary
  /\ err' = step.err
  /\ parsed' = step.parsed
  /\ sent' = sent + step.fetches
  /\ phases' = IF step.pc = "done" THEN Append(phases, step.outcome) ELSE phases

\* the fetch of the current call settles
FetchSettles ==
  /\ pc = "awaitFetch"
  /\ \E r \in Settlements(req) :
       /\ resp' = r
       /\ Continue(AfterFetch(req, r))
  /\ UNCHANGED <<tool, inst, override, apiKey, ownerId, storedOwnerId, input, req, callsDone,
                 calls, passed>>

\* response.json() of the current call settles
JsonSettles ==
  /\ pc = "awaitJson"
  /\ Continue(AfterJson(req, resp))
  /\ UNCHANGED <<tool, inst, override, apiKey, ownerId, storedOwnerId, input, req, resp,
                 callsDone, calls, passed>>

\* the caller takes the result or the error; the instance is ready for the next call
Return ==
  /\ pc = "done"
  /\ pc' = "idle"
  /\ input' = NoInput
  /\ phases' = <<"Idle">>
  /\ req' = NoReq
  /\ sent' = 0
  /\ resp' = NoResp
  /\ parsed' = FALSE
  /\ outcome' = "none"
  /\ result' = "none"
  /\ summary' = NoSummary
  /\ err' = <<>>
  /\ UNCHANGED <<tool, inst, override, apiKey, ownerId, storedOwnerId, callsDone, calls,
                 passed>>

Next == Construct \/ Call \/ FetchSettles \/ JsonSettles \/ Return

Spec == Init /\ [][Next]_vars

(***************************************************************************)
(* Two concurrent invocations on one owner-ID instance.  Each invocation   *)
(* runs from its entry to its fetch without interruption; the invocations  *)
(* interleave where they await.                                            *)
(***************************************************************************)
InitConc == tool = HubSpotOwner /\ Init

\* tool._call(input) of invocation c, up to its first await or throw; the inputs are
\* a deal search and an owner listing under several owner IDs
StartCall(c) ==
  /\ inst = "live"
  /\ calls[c].pc = "idle"
  /\ \E op \in {"searchDeals", "getOwners"} :
     \E o \in OwnerIdChoices(tool, op) \cup {Str(<<"9">>)} :
       LET inp == [operation |-> op, hasData |-> TRUE,
                   data |-> WithOwner(Sampled({"query"}), o)]
           r == CallSync(tool, inp, apiKey, storedOwnerId)
       IN /\ storedOwnerId' = r.stored
          /\ passed' = IF OwnerCheck(inp) = <<>> THEN Append(passed, c) ELSE passed
          /\ calls' = [calls EXCEPT ![c] =
                         [pc |-> IF r.err # <<>> THEN "done" ELSE "awaitFetch",
                          input |-> inp, req |-> r.req, resp |-> NoResp,
                          outcome |-> IF r.err # <<>> THEN "Failed" ELSE "none",
                          err |-> r.err]]
  /\ UNCHANGED <<tool, inst, override, apiKey, ownerId, pc, input, phases, req, sent, resp,
                 parsed, outcome, result, summary, err, callsDone>>

\* the fetch of invocation c settles
FetchSettlesOf(c) ==
  /\ calls[c].pc = "awaitFetch"
  /\ \E r \in Settlements(calls[c].req) :
       LET step == AfterFetch(calls[c].req, r) IN
         calls' = [calls EXCEPT ![c].resp = r, ![c].pc = step.pc,
                                ![c].outcome = step.outcome, ![c].err = step.err]
  /\ UNCHANGED <<tool, inst, override, apiKey, ownerId, storedOwnerId, pc, input, phases,
                 req, sent, resp, parsed, outcome, result, summary, err, callsDone, passed>>

\* response.json() of invocation c settles
JsonSettlesOf(c) ==
  /\ calls[c].pc = "awaitJson"
  /\ LET step == AfterJson(calls[c].req, calls[c].resp) IN
       calls' = [calls EXCEPT ![c].pc = step.pc, ![c].outcome = step.outcome,
                              ![c].err = step.err]
  /\ UNCHANGED <<tool, inst, override, apiKey, ownerId, storedOwnerId, pc, input, phases,
                 req, sent, resp, parsed, outcome, result, summary, err, callsDone, passed>>

NextConc ==
  \/ Construct
  \/ \E c \in CallIds : StartCall(c) \/ FetchSettlesOf(c) \/ JsonSettlesOf(c)

SpecConc == InitConc /\ [][NextConc]_vars

(***************************************************************************)
(* Properties.                                                             *)
(***************************************************************************)
\* a call is in progress or has just ended
Active == input # NoInput
Finished == pc = "done"
HasCredential == Truthy(apiKey) \/ Truthy(override)
ValidationErrors(op) == {ValidationFailedMsg, OpValidationFailedMsg(op)}
OwnerErrors == {OwnerRequiredMsg, OwnerNumericMsg}

\* C1: without an API key (from fields or the environment) and without override the
\* constructor throws, so no instance exists and nothing is sent; whenever a request
\* has been sent, the key is present or override is true.
C1_NoRequestWithoutCredential ==
  /\ (inst # "none" /\ ~HasCredential) => (inst = "failed" /\ ~Active /\ sent = 0)
  /\ sent > 0 => (inst = "live" /\ HasCredential)

\* construction was attempted with no key and no override, and threw
C1_Witness == inst = "failed" /\ ~Truthy(apiKey) /\ ~Truthy(override)

\* the input does not pass the schemas _call applies to it
FailsSchema(tl, inp) ==
  IF tl = Llama THEN ~LlamaParses(inp)
  ELSE \/ inp.operation \in ValidatedOperations /\ ~validateOperation(tl, inp)
       \/ ~SchemaParses(tl, inp)

\* the types a tool's schema gives the data keys of an input
DeclaredTypes(tl, inp) ==
  IF tl = Llama THEN Later(LlamaQuerySchema.types, LlamaFileSchema.types)
  ELSE IF inp.operation \in ValidatedOperations
  THEN operationSchemas(tl)[inp.operation].types
  ELSE GlobalSchema(tl).types

\* the operation is outside the enum, or a declared data key has a value of the wrong type
BadOperationOrType(tl, inp) ==
  \/ inp.operation \notin (IF tl = Llama THEN LlamaOperationEnum ELSE OperationEnum)
  \/ \E k \in (DOMAIN inp.data) \cap (DOMAIN DeclaredTypes(tl, inp)) :
       ~TypeOK(DeclaredTypes(tl, inp)[k], inp.data[k])

StatedRequired(op) ==
  CASE op \in {"getContact", "updateContact"} -> {"id"}
    [] op \in {"getCompany", "updateCompany"} -> {"companyId"}
    [] op \in {"getDeal", "updateDeal", "getDealLineItems"} -> {"dealId"}
    [] op \in {"getLineItem", "updateLineItem"} -> {"lineItemId"}
    [] op = "associateDeal" -> {"dealId", "toObjectId", "toObjectType"}
    [] op = "associateLineItem" -> {"lineItemId", "toObjectId", "toObjectType"}
    [] op = "getAssociations" -> {"fromObjectType", "fromObjectId", "toObjectType"}
    [] op = "getAssociationTypes" -> {"fromObjectType", "toObjectType"}
    [] op \in {"createAssociation", "deleteAssociation"} ->
         {"fromObjectType", "fromObjectId", "toObjectType", "toObjectId"}
    [] op = "getPropertyDetails" -> {"objectType", "propertyName"}
    [] op = "createDeal" ->
         {"dealName", "pipeline", "stage", "amount", "closeDate", "dealType"}
    [] op = "createLineItem" -> {"name", "dealId", "sku", "quantity", "price"}
    [] op = "createContact" -> {"email", "firstName", "lastName", "company", "phone"}
    [] op = "createCompany" ->
         {"name", "domain", "website", "industry", "city", "country", "description"}
    [] OTHER -> {}

\* the fields whose absence the code rejects
CheckedRequired(tl, op) ==
  CASE op \in {"createContact", "createCompany"} -> {}
    [] op = "getDeal" /\ tl = HubSpotOwner -> {"query"}
    [] OTHER -> StatedRequired(op)

Omits(inp, k) == ~Has(inp.data, k) \/ Get(inp.data, k) = Undef

\* no earlier check rejects the input for another reason: the owner-ID check passes,
\* and the global schema accepts the input where the operation's own schema is not applied
NotRejectedEarlier(tl, inp) ==
  /\ tl = HubSpotOwner => OwnerCheck(inp) = <<>>
  /\ inp.operation \in ValidatedOperations \/ SchemaParses(tl, inp)

\* the message names the missing field(s) ('... required for ...', or the TypeError
\* of reading the field of an absent data) or the operation
NamesFieldOrOperation(msg, op) ==
  \/ msg = OpValidationFailedMsg(op)
  \/ "required" \in Words(msg) /\ msg \notin OwnerErrors
  \/ \E k \in StatedRequired(op) : msg = TypeErrorMsg(k)

MissingFieldFails(required) ==
  (/\ Active /\ tool # Llama /\ input.operation \in OperationEnum
   /\ \E k \in required : Omits(input, k))
    => /\ Finished /\ outcome = "Failed" /\ sent = 0
       /\ NotRejectedEarlier(tool, input) => NamesFieldOrOperation(err, input.operation)

PassesChecks(tl, inp) ==
  /\ tl = HubSpotOwner => OwnerCheck(inp) = <<>>
  /\ ~FailsSchema(tl, inp)
  /\ Build(tl, inp.operation, inp.hasData, SchemaParsed(tl, inp)).err = <<>>

\* C4, as stated: a HubSpotTool call that passes validation and the precondition
\* checks issues exactly one request, except getDealLineItems, which issues exactly two.
C4_AsStated ==
  (Finished /\ tool # Llama /\ PassesChecks(tool, input))
    => sent = (IF input.operation = "getDealLineItems" THEN 2 ELSE 1)

\* C4, amended: a HubSpotTool call that passes validation and the precondition checks
\* issues exactly one request, getDealLineItems included; a call that does not pass
\* them issues none; no call issues more than one.
C4_ExactlyOneRequest ==
  (Active /\ tool # Llama) => sent = (IF PassesChecks(tool, input) THEN 1 ELSE 0)

\* getDealLineItems returned its summary after a single request
C4_Witness ==
  /\ Finished /\ tool # Llama /\ input.operation = "getDealLineItems"
  /\ outcome = "Succeeded" /\ result = "summary" /\ sent = 1
Rank(phase) ==
  CASE phase = "Idle" -> 0
    [] phase = "Validating" -> 1
    [] phase = "Building" -> 2
    [] phase = "Sending" -> 3
    [] OTHER -> 4
Terminal == {"Succeeded", "Failed"}
LastPhase == phases[Len(phases)]

\* C5: the phases of a call are Idle, Validating, Building, Sending in that order, one
\* step at a time and never backwards, ended by exactly one of Succeeded (only after
\* Sending) or Failed; a transport failure during Sending ends the call as Failed with
\* the wrapped error, and the call has issued its one request and no other.
C5_PhasesForwardNoRetry ==
  /\ phases[1] = "Idle"
  /\ \A i \in 1..(Len(phases) - 1) :
       /\ phases[i] \notin Terminal
       /\ phases[i + 1] = "Failed" \/ Rank(phases[i + 1]) = Rank(phases[i]) + 1
  /\ Finished <=> LastPhase \in Terminal
  /\ Finished => outcome = LastPhase
  /\ resp.settled = "rejected"
       => /\ Finished /\ outcome = "Failed" /\ result = "none"
          /\ phases = <<"Idle", "Validating", "Building", "Sending", "Failed">>
          /\ err = Wrapper(req.site) \o <<"<cause>">>
          /\ sent = 1

\* the fetch of a call was rejected and the call ended as Failed
C5_Witness ==
  /\ resp.settled = "rejected" /\ Finished /\ LastPhase = "Failed"
  /\ "failed" \in Words(err) \/ "Failed" \in Words(err)

NonSuccessAnswer == resp.settled = "resolved" /\ ~ok(resp.status)

\* C6: for every operation, getDealLineItems included, a non-success HTTP status
\* (answered with a JSON body) makes the call fail with a message that contains the
\* status code and the word 'failed', and the call returns no success value.
C6_AsStated ==
  (Finished /\ NonSuccessAnswer /\ resp.json)
    => /\ outcome = "Failed" /\ result = "none"
       /\ ToString(resp.status) \in Words(err) /\ "failed" \in Words(err)

\* C7: a DELETE answered 204 returns the fixed success marker and the body is never
\* parsed; for every other (method, status) the body is parsed before the call
\* produces a result.
C7_DeleteNoContentSkipsParse ==
  (Finished /\ resp.settled = "resolved")
    => IF req.method = "DELETE" /\ resp.status = 204
       THEN outcome = "Succeeded" /\ result = "marker" /\ ~parsed
       ELSE parsed /\ result # "marker"

\* deleteAssociation was answered 204 and returned the marker
C7_Witness ==
  /\ Finished /\ input.operation = "deleteAssociation" /\ req.method = "DELETE"
  /\ resp.status = 204 /\ result = "marker" /\ ~parsed
\* the operations that have a schema of their own in operationSchemas
StrictSchemaOperations ==
  {"createLineItem", "createDeal", "updateDeal", "getDealLineItems", "createAssociation",
   "searchContacts", "searchCompanies", "getPropertyDetails"}

\* C8: for each operation that has a dedicated strict schema, a call whose data has a
\* field the schema does not declare, or lacks a field it requires, fails before any
\* outbound request.
C8_AsStated ==
  (/\ Active /\ tool # Llama /\ input.operation \in StrictSchemaOperations
   /\ ~(input.hasData /\ ObjParses(operationSchemas(tool)[input.operation], input.data)))
    => (Finished /\ outcome = "Failed" /\ sent = 0)

OwnerIdOf(inp) == Get(inp.data, "hubspotOwnerId")
NotDigitsOnlyString(v) ==
  v.t # "string" \/ v.s = <<>> \/ \E i \in 1..Len(v.s) : v.s[i] \notin DigitChars
FailsOwnerPattern(v) == ~Truthy(v) \/ ~DigitsOnly(v)
\* a step that is a call of the owner-ID variant
OwnerCallStep == tool = HubSpotOwner /\ pc = "idle" /\ pc' # "idle"
RejectedByOwnerCheck ==
  /\ pc' = "done" /\ outcome' = "Failed" /\ sent' = 0
  /\ err' \in OwnerErrors
  /\ storedOwnerId' = storedOwnerId

\* C9, as stated: in the owner-ID variant a call whose data has no hubspotOwnerId, or
\* one that is not a digits-only string, fails with the owner-ID error before schema
\* validation and before any request, and leaves the cached owner identifier unchanged.
C9_AsStated ==
  [][(OwnerCallStep /\ NotDigitsOnlyString(OwnerIdOf(input'))) => RejectedByOwnerCheck]_vars

\* C9, amended: the same for a hubspotOwnerId that is missing or empty, or whose string
\* form is not digits only; a value that passes that test is cached before schema
\* validation, and when it is not a string (the number 7) the call then fails with
\* 'Validation failed' or '<operation> validation failed', still without a request.
C9_OwnerCheckFirst ==
  [][OwnerCallStep =>
       IF FailsOwnerPattern(OwnerIdOf(input'))
       THEN RejectedByOwnerCheck
       ELSE /\ storedOwnerId' = OwnerIdOf(input')
            /\ OwnerIdOf(input').t # "string"
                 => /\ pc' = "done" /\ outcome' = "Failed" /\ sent' = 0
                    /\ err' \in ValidationErrors(input'.operation)]_vars

\* a call with a non-numeric owner ID failed the owner-ID check while the cache kept
\* the value of an earlier call
C9_Witness ==
  /\ tool = HubSpotOwner /\ Finished /\ err = OwnerNumericMsg /\ sent = 0
  /\ storedOwnerId # Null /\ storedOwnerId # OwnerIdOf(input)

\* C10: in the owner-ID variant a valid numeric owner identifier is remembered on the
\* instance, and a later call on the instance that omits hubspotOwnerId is served with
\* the remembered value instead of failing the owner-ID check.
C10_AsStated ==
  (tool = HubSpotOwner /\ Active)
    => /\ ~NotDigitsOnlyString(OwnerIdOf(input)) => storedOwnerId = OwnerIdOf(input)
       /\ (storedOwnerId # Null /\ Omits(input, "hubspotOwnerId")) => err \notin OwnerErrors
\* the values the cached owner identifier of an instance may hold before a call
CachedOwnerChoices == {Null, Str(<<"7">>), Str(<<"9">>), Num(7)}

\* C11: the outbound request of a call (base URL, path, method, query parameters,
\* body, and the key it is authorised with) is a function of the input and the API
\* key alone: whatever calls were made before on the instance and whatever owner
\* identifier it has cached, the call sends the request, or fails with the error, that
\* a fresh instance with the same key sends or fails with for the same input.
C11_RequestDeterminedByInput ==
  Active
    => \A st \in CachedOwnerChoices \cup {storedOwnerId} :
         LET fresh == CallSync(tool, input, apiKey, st) IN
           /\ fresh.req = req
           /\ (pc \in {"awaitFetch", "awaitJson"} \/ sent = 0) => (fresh.err = <<>>) = (sent = 1)
           /\ sent = 0 => fresh.err = err

\* the second call on an instance of the owner-ID variant has sent its request
C11_Witness ==
  /\ tool = HubSpotOwner /\ callsDone = 2 /\ sent = 1 /\ pc = "awaitFetch"
  /\ storedOwnerId = Str(<<"7">>) /\ req.method = "POST"
\* the token the canonicalization table gives a lower-cased phrase, if any
InTable(low) == \E i \in 1..Len(stageMapping) : stageMapping[i][1] = low
TableToken(low) == stageMapping[CHOOSE i \in 1..Len(stageMapping) : stageMapping[i][1] = low][2]
SentProps == req.body.props
CreateDealSent == Active /\ input.operation = "createDeal" /\ sent = 1

\* C12: the dealstage createDeal sends is the table's token for the supplied phrase,
\* matched case-insensitively ('Closed Won' gives closedwon, 'Compelling Client Event'
\* gives qualifiedtobuy); a phrase outside the table is lower-cased and stripped of
\* whitespace ('Foo Bar' gives foobar); dealType is lower-cased and stripped of
\* whitespace on its own ('New Business' gives newbusiness).
C12_CreateDealCanonicalStage ==
  CreateDealSent =>
    LET stage == input.data.stage.s
        low == toLowerCase(stage)
    IN /\ InTable(low) => SentProps.dealstage = Str(StripWhiteSpace(TableToken(low)))
       /\ ~InTable(low) => SentProps.dealstage = Str(StripWhiteSpace(low))
       /\ stage = <<"C", "l", "o", "s", "e", "d", " ", "W", "o", "n">> => SentProps.dealstage = Str(<<"c", "l", "o", "s", "e", "d", "w", "o", "n">>)
       /\ stage = <<"C", "o", "m", "p", "e", "l", "l", "i", "n", "g", " ", "C", "l", "i", "e", "n", "t", " ", "E", "v", "e", "n", "t">> => SentProps.dealstage = Str(<<"q", "u", "a", "l", "i", "f", "i", "e", "d", "t", "o", "b", "u", "y">>)
       /\ stage = <<"F", "o", "o", " ", "B", "a", "r">> => SentProps.dealstage = Str(<<"f", "o", "o", "b", "a", "r">>)
       /\ input.data.dealType = Str(<<"N", "e", "w", " ", "B", "u", "s", "i", "n", "e", "s", "s">>) => SentProps.dealtype = Str(<<"n", "e", "w", "b", "u", "s", "i", "n", "e", "s", "s">>)

\* createDeal with stage 'Compelling Client Event' has sent dealstage qualifiedtobuy
C12_Witness ==
  /\ CreateDealSent /\ input.data.stage = Str(<<"C", "o", "m", "p", "e", "l", "l", "i", "n", "g", " ", "C", "l", "i", "e", "n", "t", " ", "E", "v", "e", "n", "t">>)
  /\ SentProps.dealstage = Str(S_qualifiedtobuy)
\* the canonical token of a stage phrase, as createDeal computes it
CanonicalStage(stage) ==
  LET low == toLowerCase(stage) IN
    StripWhiteSpace(IF InTable(low) THEN TableToken(low) ELSE low)

\* C13: updateDeal canonicalizes a supplied stage phrase the way createDeal does
\* before it sends it: stage 'Closed Won' gives a PATCH body whose dealstage is
\* closedwon.
C13_AsStated ==
  (/\ Active /\ input.operation = "updateDeal" /\ sent = 1
   /\ Has(input.data, "stage") /\ input.data.stage.t = "string")
    => /\ req.method = "PATCH"
       /\ Has(SentProps, "dealstage")
       /\ SentProps.dealstage = Str(CanonicalStage(input.data.stage.s))

\* C14: wherever a stage is canonicalized (createDeal), the phrase 'closed lost', in
\* any letter case, is sent as the stage token closedlost.
C14_AsStated ==
  (CreateDealSent /\ toLowerCase(input.data.stage.s) = <<"c", "l", "o", "s", "e", "d", " ", "l", "o", "s", "t">>)
    => SentProps.dealstage = Str(S_closedlost)
UpdateOperations == {"updateContact", "updateCompany", "updateDeal", "updateLineItem"}
UpdatePairs(op) ==
  CASE op = "updateContact" -> ContactUpdatePairs
    [] op = "updateCompany" -> CompanyPairs
    [] op = "updateDeal" -> DealUpdatePairs
    [] OTHER -> LineItemUpdatePairs
UpdateSent == Active /\ input.operation \in UpdateOperations /\ sent = 1

\* C15: the properties of the PATCH body of an update operation have no key for a
\* field the input lacks: every key present carries the value of its input field, and
\* updateDeal with only dealName = X and the deal ID sends properties {dealname: X}.
C15_SparseUpdate ==
  UpdateSent =>
    LET pairs == UpdatePairs(input.operation) IN
      /\ req.method = "PATCH" /\ req.hasBody
      /\ \A k \in DOMAIN SentProps :
           \E i \in 1..Len(pairs) :
             /\ pairs[i][1] = k
             /\ Has(input.data, pairs[i][2])
             /\ SentProps[k] = input.data[pairs[i][2]]
      /\ (input.operation = "updateDeal" /\ DOMAIN input.data = {"dealId", "dealName"})
           => SentProps = [dealname |-> input.data.dealName]

\* updateDeal with only the deal ID and dealName has sent properties {dealname: X}
C15_Witness ==
  /\ UpdateSent /\ input.operation = "updateDeal"
  /\ DOMAIN input.data = {"dealId", "dealName"}
  /\ DOMAIN SentProps = {"dealname"}
SummaryReturned == Finished /\ result = "summary"
\* the amount of a row in hundredths, a missing or unparseable amount counting as 0
ExpectedCents(amount) ==
  CASE amount = Str(<<"1", "9", "9", ".", "9", "8">>) -> 19998
    [] amount = Str(<<"1", "4", "9", ".", "9", "9">>) -> 14999
    [] OTHER -> 0
RECURSIVE ExpectedTotal(_)
ExpectedTotal(items) ==
  IF items = <<>> THEN 0 ELSE ExpectedCents(Head(items).amount) + ExpectedTotal(Tail(items))

\* C16: the summary of a successful getDealLineItems answer with rows r1..rn (n >= 0,
\* an answer without a results field included) has totalAmount equal to the sum of
\* the rows' amounts, a missing or unparseable amount counting as 0, one table row per
\* result row in the order of the results, and the headers Name, Quantity, Price,
\* Amount, SKU; amounts 199.98 and 149.99 give 349.97.
C16_AsStated ==
  SummaryReturned =>
    LET items == resp.results.items IN
      /\ summary.hasTotalAmount
      /\ summary.totalAmount = ExpectedTotal(items)
      /\ Len(summary.rows) = Len(items)
      /\ \A i \in 1..Len(items) :
           summary.rows[i].name = (IF items[i].name = Undef THEN Str(<<"N", "/", "A">>)
                                   ELSE items[i].name)
      /\ summary.headers = <<"Name", "Quantity", "Price", "Amount", "SKU">>
      /\ items = <<Row(Str(<<"A">>), Str(<<"1", "9", "9", ".", "9", "8">>)), Row(Str(<<"B">>), Str(<<"1", "4", "9", ".", "9", "9">>))>> => summary.totalAmount = 34997

\* the deal ID a getDealLineItems input supplies
SuppliedDealId == ToStr(input.data.dealId)
LineItemsIdReached ==
  /\ Active /\ input.operation = "getDealLineItems"
  /\ Len(phases) >= 3 /\ phases[3] = "Building"
  /\ Truthy(Get(input.data, "dealId"))

AssociationCall ==
  /\ Active /\ tool = HubSpot /\ input.operation = "createAssociation" /\ input.hasData
  /\ DOMAIN input.data \subseteq
       {"fromObjectType", "fromObjectId", "toObjectType", "toObjectId", "associationType"}
  /\ ObjParses(operationSchemas(HubSpot)["createAssociation"],
               Without(input.data, {"associationType"}))
  /\ Has(input.data, "associationType")
       => (input.data.associationType.t = "string" /\ input.data.associationType.s # <<>>)
AssociationPair == <<input.data.fromObjectType.s, input.data.toObjectType.s>>
HardCodedToken(pair) ==
  CASE pair = <<S_companies, S_deals>> -> <<"c", "o", "m", "p", "a", "n", "y", "_", "t", "o", "_", "d", "e", "a", "l">>
    [] pair = <<S_deals, S_companies>> -> <<"d", "e", "a", "l", "_", "t", "o", "_", "c", "o", "m", "p", "a", "n", "y">>
    [] pair = <<S_contacts, S_deals>> -> <<"c", "o", "n", "t", "a", "c", "t", "_", "t", "o", "_", "d", "e", "a", "l">>
    [] pair = <<S_deals, S_contacts>> -> <<"d", "e", "a", "l", "_", "t", "o", "_", "c", "o", "n", "t", "a", "c", "t">>
    [] OTHER -> <<>>
KnownPair == HardCodedToken(AssociationPair) # <<>>
FailedBeforeRequest == Finished /\ outcome = "Failed" /\ sent = 0

\* C18: createAssociation for one of the four known pairs sends a body whose type is
\* the hard-coded token of the pair, whatever associationType the caller supplied; for
\* any other pair without an associationType the call fails before any request.
C18_AsStated ==
  AssociationCall =>
    /\ KnownPair => (sent = 1 /\ req.body.more.type = Str(HardCodedToken(AssociationPair)))
    /\ (~KnownPair /\ ~Has(input.data, "associationType")) => FailedBeforeRequest

\* C19: createAssociation for a pair outside the four known ones sends a request whose
\* type is exactly the associationType the caller supplied, and fails before the
\* network only when none is supplied.
C19_AsStated ==
  (AssociationCall /\ ~KnownPair) =>
    IF Has(input.data, "associationType")
    THEN sent = 1 /\ req.body.more.type = input.data.associationType
    ELSE FailedBeforeRequest

\* C20: createAssociation from deals (ID f) to line_items (ID t) with only the two
\* types and the two IDs succeeds with a PUT to
\* https://api.hubapi.com/crm/v3/objects/deals/f/associations/line_items/t whose body
\* contains deal_to_line_item.
C20_AsStated ==
  (/\ AssociationCall /\ AssociationPair = <<S_deals, S_line_items>>
   /\ ~Has(input.data, "associationType"))
    => /\ sent = 1 /\ outcome # "Failed"
       /\ req.method = "PUT" /\ req.baseUrl = BaseV3
       /\ req.args = <<S_deals, input.data.fromObjectId.s, S_line_items,
                       input.data.toObjectId.s>>
       /\ req.body.more.type = Str(<<"d", "e", "a", "l", "_", "t", "o", "_", "l", "i", "n", "e", "_", "i", "t", "e", "m">>)

SearchOperations == {"searchContacts", "searchCompanies", "searchDeals", "searchLineItems"}
SearchSent == Active /\ input.operation \in SearchOperations /\ sent = 1
SentFilters == req.body.filters
CreatedateFromZero ==
  [propertyName |-> "createdate", operator |-> <<"G", "T", "E">>, value |-> Str(<<"0">>),
   values |-> <<>>]

\* C21 as stated: every search request, searchLineItems included, has the filter
\* createdate GTE '0' among its filters, whatever else the caller supplied.
C21_AsStated ==
  SearchSent => \E i \in 1..Len(SentFilters) : SentFilters[i] = CreatedateFromZero

\* C21: searchContacts, searchCompanies and searchDeals send createdate GTE '0' as the
\* first filter of their one filter group, whatever else the caller supplied;
\* searchLineItems sends exactly one filter, which is createdate GTE '0' when no query
\* is given and hs_product_id EQ <query> when one is.
C21_BaseFilterExceptLineItemQuery ==
  SearchSent =>
    IF input.operation = "searchLineItems"
    THEN /\ Len(SentFilters) = 1
         /\ SentFilters[1] =
              (IF Truthy(Get(input.data, "query"))
               THEN [propertyName |-> "hs_product_id", operator |-> <<"E", "Q">>,
                     value |-> input.data.query, values |-> <<>>]
               ELSE CreatedateFromZero)
    ELSE Len(SentFilters) >= 1 /\ SentFilters[1] = CreatedateFromZero

\* a searchDeals request with further criteria went out, the base filter first
C21_Witness ==
  /\ SearchSent /\ input.operation = "searchDeals"
  /\ Len(SentFilters) > 2 /\ SentFilters[1] = CreatedateFromZero

DealSearchSent == Active /\ input.operation = "searchDeals" /\ sent = 1
IsStageFilter(f) == f.propertyName = "dealstage"
StageFilters == SelectSeq(SentFilters, IsStageFilter)
SuppliedStage == Get(input.data, "dealStage")

PagingValues(rq) ==
  {rq.body.limit} \cup {rq.body.more[k] : k \in DOMAIN rq.body.more}
    \cup {Str(rq.query[i].v) : i \in 1..Len(rq.query)}

\* C23 as stated: a search request carries the limit and the after token the caller
\* supplied.
C23_AsStated ==
  (/\ SearchSent
   /\ Truthy(Get(input.data, "limit")) /\ Truthy(Get(input.data, "after")))
    => /\ req.body.limit = input.data.limit
       /\ input.data.after \in PagingValues(req)

\* the owner-ID variant is called with getDeal in the documented shape: a dealId, a
\* numeric hubspotOwnerId and at most the optional properties
DocumentedGetDeal ==
  /\ tool = HubSpotOwner /\ Active /\ input.operation = "getDeal" /\ input.hasData
  /\ {"dealId", "hubspotOwnerId"} \subseteq DOMAIN input.data
  /\ DOMAIN input.data \subseteq {"dealId", "hubspotOwnerId", "properties"}
  /\ input.data.dealId.t = "string" /\ Truthy(input.data.dealId)
  /\ input.data.hubspotOwnerId.t = "string" /\ DigitsOnly(input.data.hubspotOwnerId)
  /\ Has(input.data, "properties") => input.data.properties.t = "array"

\* C24 as stated: in the owner-ID variant getDeal with {dealId: D, hubspotOwnerId: O}
\* issues a GET for /objects/deals/D, the optional properties comma-joined in the
\* query.
C24_AsStated ==
  DocumentedGetDeal =>
    /\ sent = 1 /\ req.method = "GET" /\ req.baseUrl = BaseV3
    /\ req.args = <<input.data.dealId.s>>
    /\ Has(input.data, "properties") =>
         req.query = <<[k |-> "properties", v |-> Join(input.data.properties.a)]>>

\* C25 as stated: a getContact call whose data carries no email fails before any
\* request, with an error saying that the email is required.
C25_AsStated ==
  (/\ Active /\ input.operation = "getContact" /\ input.hasData
   /\ NotRejectedEarlier(tool, input)
   /\ ~Has(input.data, "email"))
    => /\ sent = 0 /\ outcome = "Failed"
       /\ {"Email", "is", "required"} \subseteq Words(err)

\* the operations of the enum that some input of the model gets sent on a tool
Sendable(tl) ==
  {op \in OperationEnum :
     \E inp \in Inputs(tl, op) : CallSync(tl, inp, apiKey, storedOwnerId).err = <<>>}

\* C26 as stated: on a live instance of either HubSpotTool variant, every operation
\* name of the enum has an input on which _call reaches Sending.
C26_AsStated ==
  inst = "live" => \A tl \in {HubSpot, HubSpotOwner} : Sendable(tl) = OperationEnum

Started(c) == calls[c].pc # "idle"
OwnerOf(c) == Get(calls[c].input.data, "hubspotOwnerId")
OwnerFilterValues(rq) ==
  {rq.body.filters[i].value :
     i \in {j \in 1..Len(rq.body.filters) : rq.body.filters[j].propertyName = "hubspot_owner_id"}}

\* C27: with two invocations interleaved on one owner-ID instance, the request of each
\* is the one its own input gives whatever the cache holds (the owner filter of a deal
\* search carries the invocation's own hubspotOwnerId), and the cached owner ID is the
\* hubspotOwnerId of the invocation that passed the digits check last (null if none
\* has), at every point and so after both complete.
C27_ConcurrentCallsIsolated ==
  /\ \A c \in CallIds :
       Started(c) =>
         /\ \A st \in CachedOwnerChoices \cup {storedOwnerId} :
              calls[c].req = CallSync(HubSpotOwner, calls[c].input, apiKey, st).req
         /\ OwnerFilterValues(calls[c].req) \subseteq {OwnerOf(c)}
  /\ storedOwnerId = IF passed = <<>> THEN Null ELSE OwnerOf(passed[Len(passed)])

\* both invocations are in flight, B entered first, their owner IDs differ: B's deal
\* search carries B's owner ID while the cache holds A's
C27_Witness ==
  /\ calls["A"].pc = "awaitFetch" /\ calls["B"].pc = "awaitJson"
  /\ passed = <<"B", "A">>
  /\ OwnerOf("A") # OwnerOf("B")
  /\ calls["B"].input.operation = "searchDeals"
  /\ OwnerFilterValues(calls["B"].req) = {OwnerOf("B")}
  /\ storedOwnerId = OwnerOf("A")

\* C28 as stated: a call whose request was answered with a success status ends
\* Succeeded with a result, whatever the method and whether or not the answer has a
\* body (a 204 to a request other than DELETE included).
C28_AsStated ==
  (Finished /\ resp.settled = "resolved" /\ ok(resp.status))
    => outcome = "Succeeded" /\ result # "none"

\* C29 as stated: a LlamaRetrievalTool request for get_file addresses the non-empty
\* file_id the caller supplied, and a request for retrieve carries the non-empty query
\* the caller supplied; neither is ever built from an undefined field.
C29_AsStated ==
  (tool = Llama /\ Active /\ sent = 1) =>
    IF input.operation = "get_file"
    THEN /\ Has(input.data, "file_id") /\ Truthy(input.data.file_id)
         /\ req.method = "GET" /\ req.args = <<input.data.file_id.s>>
    ELSE /\ Has(input.data, "query") /\ Truthy(input.data.query)
         /\ req.method = "POST" /\ req.body.more.query = input.data.query

\* the outgoing keys of the fields supplied with a value other than 0 and ''
NonZeroNonEmptyKeys(op, data) ==
  {UpdatePairs(op)[i][1] :
     i \in {j \in 1..Len(UpdatePairs(op)) :
              /\ Has(data, UpdatePairs(op)[j][2])
              /\ data[UpdatePairs(op)[j][2]] \notin {Num(0), Str(<<>>)}}}

\* C30: the properties of the PATCH body of an update operation have exactly the keys
\* of the fields supplied with a non-zero, non-empty value, each with the supplied
\* value: a field supplied as 0 or as '' is left out like a field not supplied.
C30_TruthyFieldsOnly ==
  UpdateSent =>
    /\ DOMAIN SentProps = NonZeroNonEmptyKeys(input.operation, input.data)
    /\ \A i \in 1..Len(UpdatePairs(input.operation)) :
         UpdatePairs(input.operation)[i][1] \in DOMAIN SentProps =>
           SentProps[UpdatePairs(input.operation)[i][1]]
             = input.data[UpdatePairs(input.operation)[i][2]]

\* updateDeal with amount 0, dealName '' and a stage has sent properties with the
\* stage only
C30_Witness ==
  /\ UpdateSent /\ input.operation = "updateDeal"
  /\ Get(input.data, "amount") = Num(0) /\ Get(input.data, "dealName") = Str(<<>>)
  /\ DOMAIN SentProps = {"dealstage"}
====
